---- MODULE Spec2Model ----
(***************************************************************************)
(* NetUMP session endpoint (CNetUMPHandler): session state machine, the    *)
(* outbound FIFO and packet assembler with FEC, and the inbound parser     *)
(* with its dedup window.                                                  *)
(*                                                                         *)
(* Representation.  A 32-bit value is a tuple of its four bytes, most      *)
(* significant first (TLC integers are 32-bit signed, 0xFF000000 does not  *)
(* fit).  The host is little-endian: htonl swaps the bytes of a value and  *)
(* Store lays a value out in memory lowest byte first.  A datagram is the  *)
(* sequence of bytes handed to sendto.                                     *)
(***************************************************************************)
EXTENDS Integers, Sequences, FiniteSets, TLC

VARIABLES H, sock, net, last, gh, th

vars == <<H, sock, net, last, gh, th>>

(* ------------------------- program constants -------------------------- *)

SESSION_CLOSED == 0
SESSION_INVITE == 2
SESSION_WAIT_INVITE == 4
SESSION_OPENED == 8

TIMEOUT_RESET == 30000
UMP_FIFO_SIZE == 1024
NUM_FEC_ENTRIES == 5
ERROR_CORRECTION_NONE == 0
ERROR_CORRECTION_FEC == 1

INVITATION_COMMAND == 1
INVITATION_ACCEPTED_COMMAND == 16
PING_COMMAND == 32
PING_REPLY_COMMAND == 33
SESSION_RESET_COMMAND == 130
SESSION_RESET_REPLY_COMMAND == 131
BYE_COMMAND == 240
BYE_REPLY_COMMAND == 241
UMP_DATA_COMMAND == 255

BYE_USER_TERMINATED == 1
BYE_TIMEOUT == 4
BYE_TOO_MANY_SESSIONS == 64

\* INVALID_SOCKET; an open socket is the local port it is bound to
INVALID_SOCKET == -1
\* sizeof(ReceptionBuffer) in RunSession
ReceptionBufferSize == 1024
\* uint32_t UMPCommand[65] in RunSession
UMPCommandLen == 65
\* uint32_t Packet[65] in TFEC_REGISTER
FECPacketLen == 65
\* "NewCommandWordCount+NewLength<65" in GenerateUMPCommand
PacketWordLimit == 65
\* PINGDelayCounter>10000
PingDelayLimit == 10000
\* PrepareTimerEvent(1000)
InviteRetryTime == 1000
\* uint16_t UMPSequenceCounter
SeqModulus == 65536
\* ReceivedSequenceCounters[Slot] = 0xFFFF
SeqSentinel == 65535

UMPSize == <<1, 1, 1, 2, 2, 4, 1, 1, 2, 2, 2, 3, 3, 4, 4, 4>>

\* 'M','I','D','I' = 0x4D494449
UMP_SIGNATURE == <<77, 73, 68, 73>>

\* strcpy(EndpointName, "NetUMP"), strcpy(ProductInstanceID, "DefaultID")
EndpointName == <<78, 101, 116, 85, 77, 80>>
ProductInstanceID == <<68, 101, 102, 97, 117, 108, 116, 73, 68>>

(* ----------------------------- 32-bit words --------------------------- *)

\* the value n (0 <= n < 2^31) as a 32-bit word
U32(n) == <<(n \div 16777216) % 256, (n \div 65536) % 256, (n \div 256) % 256, n % 256>>

\* a + b on uint32
Add32(a, b) ==
    LET s0 == a[4] + b[4]
        s1 == a[3] + b[3] + (s0 \div 256)
        s2 == a[2] + b[2] + (s1 \div 256)
        s3 == a[1] + b[1] + (s2 \div 256)
    IN <<s3 % 256, s2 % 256, s1 % 256, s0 % 256>>

\* n << 16 on uint32, for 0 <= n < 2^16
Shl16(n) == <<(n \div 256) % 256, n % 256, 0, 0>>

\* htonl / ntohl on a little-endian host
htonl(w) == <<w[4], w[3], w[2], w[1]>>

\* the bytes of a value in memory, lowest address first (little-endian host)
Store(v) == <<v[4], v[3], v[2], v[1]>>

\* the value read from four bytes of memory (little-endian host)
Load(b) == <<b[4], b[3], b[2], b[1]>>

\* UMPData[0]>>28
MTof(w) == w[1] \div 16

\* the memory image of an array of 32-bit values
StoreAll(ws) == [i \in 1 .. 4 * Len(ws) |-> Store(ws[((i - 1) \div 4) + 1])[((i - 1) % 4) + 1]]

\* a value that the program never initialised
Indeterminate == <<-1, -1, -1, -1>>

(* ------------------------------ the handler --------------------------- *)

FECSlots == 0 .. (NUM_FEC_ENTRIES - 1)

\* ResetFECMemory: Packet[] is left as it is
ResetFECMemory(h) ==
    [h EXCEPT !.UMPSequenceCounter = 0,
              !.NextFECSlot = 0,
              !.FECMemory = [s \in FECSlots |-> [@[s] EXCEPT !.Filled = FALSE, !.Size = 0]],
              !.ReceivedSequenceCounters = [s \in FECSlots |-> SeqSentinel]]

\* the constructor; FIFO[] and FECMemory[].Packet[] are not initialised
CNetUMPHandler ==
    ResetFECMemory(
    [UMPSocket |-> INVALID_SOCKET,
     SessionState |-> SESSION_CLOSED,
     RemoteIP |-> 0, RemoteUDPPort |-> 0, LocalUDPPort |-> 0,
     SocketLocked |-> TRUE,
     SessionPartnerIP |-> 0, SessionPartnerPort |-> 0,
     IsInitiatorNode |-> TRUE,
     TimeOutRemote |-> TIMEOUT_RESET,
     InviteCount |-> 0,
     ConnectionLost |-> FALSE, PeerClosedSession |-> FALSE,
     LastReceivedUMPCounter |-> 0,
     PINGDelayCounter |-> 0, PINGIdCounter |-> 0,
     UMPSequenceCounter |-> 0,
     NextFECSlot |-> 0,
     FECMemory |-> [s \in FECSlots |-> [Filled |-> FALSE, Size |-> 0, Packet |-> <<>>]],
     ReceivedSequenceCounters |-> [s \in FECSlots |-> 0],
     ErrorCorrectionMode |-> ERROR_CORRECTION_FEC,
     FIFO |-> <<>>, ReadPtr |-> 0, WritePtr |-> 0,
     TimerRunning |-> FALSE, TimerEvent |-> FALSE, EventTime |-> 0,
     UMPCallback |-> 1, ClientInstance |-> 1])

PrepareTimerEvent(h, TimeToWait) ==
    [h EXCEPT !.TimerEvent = FALSE, !.EventTime = TimeToWait, !.TimerRunning = TRUE]

\* CloseSockets
CloseSockets(h) == [h EXCEPT !.UMPSocket = INVALID_SOCKET]

\* InitiateSession arming the timer for a full retry period (the first INVITATION
\* then waits one second)
InitiateSession_LateTimer(h, DestIP, DestPort, LocalPort, IsInitiator, SocketOK) ==
    IF ~SocketOK THEN [h |-> CloseSockets(h), ret |-> -1]
    ELSE [h |-> PrepareTimerEvent(
                 [CloseSockets(h) EXCEPT !.RemoteIP = DestIP, !.RemoteUDPPort = DestPort,
                                         !.LocalUDPPort = LocalPort, !.UMPSocket = LocalPort,
                                         !.ConnectionLost = FALSE, !.InviteCount = 0,
                                         !.TimeOutRemote = TIMEOUT_RESET,
                                         !.UMPSequenceCounter = 0, !.PINGDelayCounter = 0,
                                         !.IsInitiatorNode = IsInitiator,
                                         !.SessionState = IF IsInitiator THEN SESSION_INVITE
                                                          ELSE SESSION_WAIT_INVITE,
                                         !.SessionPartnerIP = IF IsInitiator THEN DestIP ELSE @,
                                         !.SessionPartnerPort = IF IsInitiator THEN DestPort ELSE @,
                                         !.SocketLocked = FALSE], InviteRetryTime),
          ret |-> 0]

\* InitiateSession; SocketOK is the outcome of CreateUDPSocket
InitiateSession(h, DestIP, DestPort, LocalPort, IsInitiator, SocketOK) ==
    LET h0 == [CloseSockets(h) EXCEPT !.RemoteIP = DestIP,
                                      !.RemoteUDPPort = DestPort,
                                      !.LocalUDPPort = LocalPort]
    IN IF ~SocketOK THEN [h |-> h0, ret |-> -1]
       ELSE LET h1 == [h0 EXCEPT !.UMPSocket = LocalPort,
                                 !.ConnectionLost = FALSE,
                                 !.InviteCount = 0,
                                 !.TimeOutRemote = TIMEOUT_RESET,
                                 !.UMPSequenceCounter = 0,
                                 !.PINGDelayCounter = 0,
                                 !.TimerRunning = FALSE,
                                 !.IsInitiatorNode = IsInitiator]
                h2 == IF ~IsInitiator
                      THEN [h1 EXCEPT !.SessionState = SESSION_WAIT_INVITE]
                      ELSE [h1 EXCEPT !.SessionState = SESSION_INVITE,
                                      !.SessionPartnerIP = DestIP,
                                      !.SessionPartnerPort = DestPort]
            IN [h |-> PrepareTimerEvent([h2 EXCEPT !.SocketLocked = FALSE], 1), ret |-> 0]

\* RestartSessionInitiator without its PrepareTimerEvent (1000)
RestartSessionInitiator_KeepTimer(h) ==
    IF ~h.IsInitiatorNode THEN h
    ELSE [h EXCEPT !.UMPSequenceCounter = 0, !.SessionState = SESSION_INVITE,
                   !.TimeOutRemote = TIMEOUT_RESET]

RestartSessionInitiator(h) ==
    IF ~h.IsInitiatorNode THEN h
    ELSE [PrepareTimerEvent([h EXCEPT !.UMPSequenceCounter = 0,
                                      !.SessionState = SESSION_INVITE], InviteRetryTime)
            EXCEPT !.TimeOutRemote = TIMEOUT_RESET]

GetSessionStatus(h) ==
    IF h.SessionState = SESSION_CLOSED THEN 0
    ELSE IF h.SessionState = SESSION_OPENED THEN 3
    ELSE IF h.SessionState = SESSION_INVITE THEN 1
    ELSE 2

ReadAndResetConnectionLost(h) ==
    IF ~h.ConnectionLost THEN [h |-> h, ret |-> FALSE]
    ELSE [h |-> [h EXCEPT !.ConnectionLost = FALSE], ret |-> TRUE]

RemotePeerClosedSession(h) ==
    [h |-> [h EXCEPT !.PeerClosedSession = FALSE], ret |-> h.PeerClosedSession]

SelectErrorCorrectionMode(h, CorrectionMethod) ==
    [h EXCEPT !.ErrorCorrectionMode = CorrectionMethod]

(* ------------------------------ the FIFO ------------------------------ *)

\* FIFO[i] = v
FifoStore(f, i, v) == (i :> v) @@ f

\* FIFO[i]
FifoLoad(f, i) == IF i \in DOMAIN f THEN f[i] ELSE Indeterminate

\* TmpWrite++ ; if (TmpWrite>=UMP_FIFO_SIZE) TmpWrite = 0
NextPtr(p) == IF p + 1 >= UMP_FIFO_SIZE THEN 0 ELSE p + 1

RECURSIVE PushLoop(_, _, _, _, _, _)
\* the for loop of SendUMPMessage
PushLoop(f, ReadPtr, UMPData, MsgSize, TmpWrite, WordCounter) ==
    IF WordCounter >= MsgSize THEN [FIFO |-> f, TmpWrite |-> TmpWrite, full |-> FALSE]
    ELSE LET f1 == FifoStore(f, TmpWrite, UMPData[WordCounter + 1])
             t1 == NextPtr(TmpWrite)
         IN IF t1 = ReadPtr THEN [FIFO |-> f1, TmpWrite |-> t1, full |-> TRUE]
            ELSE PushLoop(f1, ReadPtr, UMPData, MsgSize, t1, WordCounter + 1)

\* SendUMPMessage storing its write cursor also when the FIFO turned out full
SendUMPMessage_NoRollback(h, UMPData) ==
    IF h.SessionState # SESSION_OPENED THEN [h |-> h, ret |-> FALSE]
    ELSE LET MsgSize == UMPSize[MTof(UMPData[1]) + 1]
             r == PushLoop(h.FIFO, h.ReadPtr, UMPData, MsgSize, h.WritePtr, 0)
         IN [h |-> [h EXCEPT !.FIFO = r.FIFO, !.WritePtr = r.TmpWrite], ret |-> ~r.full]

SendUMPMessage(h, UMPData) ==
    IF h.SessionState # SESSION_OPENED THEN [h |-> h, ret |-> FALSE]
    ELSE LET MsgSize == UMPSize[MTof(UMPData[1]) + 1]
             r == PushLoop(h.FIFO, h.ReadPtr, UMPData, MsgSize, h.WritePtr, 0)
         IN IF r.full THEN [h |-> [h EXCEPT !.FIFO = r.FIFO], ret |-> FALSE]
            ELSE [h |-> [h EXCEPT !.FIFO = r.FIFO, !.WritePtr = r.TmpWrite], ret |-> TRUE]

(* ------------------------- outbound assembler ------------------------- *)

RECURSIVE CopyWords(_, _, _)
\* the NewLength words of one message, read from the FIFO at p and passed through htonl
CopyWords(f, p, n) ==
    IF n = 0 THEN <<>> ELSE <<htonl(FifoLoad(f, p))>> \o CopyWords(f, NextPtr(p), n - 1)

RECURSIVE AdvancePtr(_, _)
AdvancePtr(p, n) == IF n = 0 THEN p ELSE AdvancePtr(NextPtr(p), n - 1)

RECURSIVE DrainLoop_LateLimit(_, _, _, _)
\* the while loop taking a message as long as the payload does not exceed 65 words
DrainLoop_LateLimit(f, TempPtr, UMPBlockEnd, words) ==
    IF TempPtr = UMPBlockEnd THEN [TempPtr |-> TempPtr, words |-> words]
    ELSE LET NewLength == UMPSize[MTof(FifoLoad(f, TempPtr)) + 1]
         IN IF Len(words) + NewLength <= PacketWordLimit
            THEN DrainLoop_LateLimit(f, AdvancePtr(TempPtr, NewLength), UMPBlockEnd,
                                     words \o CopyWords(f, TempPtr, NewLength))
            ELSE [TempPtr |-> TempPtr, words |-> words]

RECURSIVE DrainLoop(_, _, _, _)
\* the while loop of GenerateUMPCommand: the payload words and the final TempPtr
DrainLoop(f, TempPtr, UMPBlockEnd, words) ==
    IF TempPtr = UMPBlockEnd THEN [TempPtr |-> TempPtr, words |-> words]
    ELSE LET NewLength == UMPSize[MTof(FifoLoad(f, TempPtr)) + 1]
         IN IF Len(words) + NewLength < PacketWordLimit
            THEN DrainLoop(f, AdvancePtr(TempPtr, NewLength), UMPBlockEnd,
                           words \o CopyWords(f, TempPtr, NewLength))
            ELSE [TempPtr |-> TempPtr, words |-> words]

\* 0xFF000000 + (NewCommandWordCount<<16) + UMPSequenceCounter
PacketHeader(NewCommandWordCount, UMPSequenceCounter) ==
    Add32(Add32(<<255, 0, 0, 0>>, Shl16(NewCommandWordCount)), U32(UMPSequenceCounter))

\* UMPSequenceCounter++ on uint16_t
NextSequence(c) == (c + 1) % SeqModulus

RECURSIVE FECConcat(_, _, _)
\* the FEC poll loop: the filled slots, Size words each, from FECIndex on
FECConcat(fec, FECIndex, FECPollCounter) ==
    IF FECPollCounter >= NUM_FEC_ENTRIES THEN <<>>
    ELSE (IF fec[FECIndex].Filled
          THEN SubSeq(fec[FECIndex].Packet, 1, fec[FECIndex].Size)
          ELSE <<>>)
         \o FECConcat(fec, IF FECIndex + 1 >= NUM_FEC_ENTRIES THEN 0 ELSE FECIndex + 1,
                      FECPollCounter + 1)

\* the slot written for a new packet: NewCommandWordCount+1 words are copied, the
\* last of them from beyond the words NewUMPCommand holds
FECStore(fec, NewFECSlot, NewUMPCommand) ==
    [fec EXCEPT ![NewFECSlot] = [Filled |-> TRUE,
                                 Size |-> Len(NewUMPCommand),
                                 Packet |-> NewUMPCommand \o <<Indeterminate>>]]

\* GenerateUMPCommand sending the new packet alone in either mode
GenerateUMPCommand_NoFEC(h) ==
    IF h.WritePtr = h.ReadPtr
    THEN [h |-> h, UMPCommand |-> <<>>, size |-> 0, NewUMPCommand |-> <<>>]
    ELSE LET d == DrainLoop(h.FIFO, h.ReadPtr, h.WritePtr, <<>>)
             NewUMPCommand == <<htonl(PacketHeader(Len(d.words), h.UMPSequenceCounter))>> \o d.words
             cmd == <<htonl(UMP_SIGNATURE)>> \o NewUMPCommand
         IN [h |-> [h EXCEPT !.ReadPtr = d.TempPtr, !.UMPSequenceCounter = NextSequence(@)],
             UMPCommand |-> cmd, size |-> Len(cmd), NewUMPCommand |-> NewUMPCommand]

\* GenerateUMPCommand: the handler afterwards, the words written from UMPCommand[0]
\* on, the return value, and the new packet (header and payload)
GenerateUMPCommand(h) ==
    IF h.WritePtr = h.ReadPtr
    THEN [h |-> h, UMPCommand |-> <<>>, size |-> 0, NewUMPCommand |-> <<>>]
    ELSE LET d == DrainLoop(h.FIFO, h.ReadPtr, h.WritePtr, <<>>)
             NewUMPCommand == <<htonl(PacketHeader(Len(d.words), h.UMPSequenceCounter))>> \o d.words
             h1 == [h EXCEPT !.ReadPtr = d.TempPtr,
                             !.UMPSequenceCounter = NextSequence(@)]
         IN IF h.ErrorCorrectionMode = ERROR_CORRECTION_FEC
            THEN LET fec == FECStore(h.FECMemory, h.NextFECSlot, NewUMPCommand)
                     nxt == IF h.NextFECSlot + 1 >= NUM_FEC_ENTRIES THEN 0 ELSE h.NextFECSlot + 1
                     cmd == <<htonl(UMP_SIGNATURE)>> \o FECConcat(fec, nxt, 0)
                 IN [h |-> [h1 EXCEPT !.FECMemory = fec, !.NextFECSlot = nxt],
                     UMPCommand |-> cmd, size |-> Len(cmd), NewUMPCommand |-> NewUMPCommand]
            ELSE LET cmd == <<htonl(UMP_SIGNATURE)>> \o NewUMPCommand
                 IN [h |-> h1, UMPCommand |-> cmd, size |-> Len(cmd),
                     NewUMPCommand |-> NewUMPCommand]

(* --------------------------- session packets -------------------------- *)

\* name, its terminator and the zero stuffing up to a word boundary
PadName(name) ==
    LET n == Len(name) + 1
        w == (n \div 4) + (IF n % 4 # 0 THEN 1 ELSE 0)
    IN name \o [i \in 1 .. (4 * w - Len(name)) |-> 0]

\* the datagram of SendInvitationCommand / SendInvitationAcceptedCommand
InvitationPacket(CommandCode) ==
    LET nm == PadName(EndpointName)
        pid == PadName(ProductInstanceID)
        CSD1 == Len(nm) \div 4
        WordLen == CSD1 + (Len(pid) \div 4)
    IN Store(htonl(UMP_SIGNATURE)) \o <<CommandCode, WordLen % 256, CSD1 % 256, 0>> \o nm \o pid

\* SendInvitationCommand: to SessionPartnerIP and RemoteUDPPort
SendInvitationCommand(h) ==
    [ip |-> h.SessionPartnerIP, port |-> h.RemoteUDPPort,
     data |-> InvitationPacket(INVITATION_COMMAND)]

SendInvitationAcceptedCommand(h) ==
    [ip |-> h.SessionPartnerIP, port |-> h.SessionPartnerPort,
     data |-> InvitationPacket(INVITATION_ACCEPTED_COMMAND)]

SendBYECommand(BYEReason, DestinationIP, DestinationPort) ==
    [ip |-> DestinationIP, port |-> DestinationPort,
     data |-> Store(htonl(UMP_SIGNATURE)) \o <<BYE_COMMAND, 0, BYEReason, 0>>]

SendBYEReplyCommand(DestinationIP, DestinationPort) ==
    [ip |-> DestinationIP, port |-> DestinationPort,
     data |-> Store(htonl(UMP_SIGNATURE)) \o <<BYE_REPLY_COMMAND, 0, 0, 0>>]

\* PINGId is a 32-bit word
SendPINGCommand(h, PINGId) ==
    [ip |-> h.SessionPartnerIP, port |-> h.SessionPartnerPort,
     data |-> Store(htonl(UMP_SIGNATURE)) \o <<PING_COMMAND, 1, 0, 0>> \o Store(htonl(PINGId))]

SendPINGReplyCommand(h, PINGId) ==
    [ip |-> h.SessionPartnerIP, port |-> h.SessionPartnerPort,
     data |-> Store(htonl(UMP_SIGNATURE)) \o <<PING_REPLY_COMMAND, 1, 0, 0>> \o Store(htonl(PINGId))]

(* ---------------------------- inbound parser -------------------------- *)

\* ReceptionBuffer[i]; a byte beyond the received data was never written
BufAt(buf, junk, i) == IF i < Len(buf) THEN buf[i + 1] ELSE junk

\* (UMPByte[0]<<24)+(UMPByte[1]<<16)+(UMPByte[2]<<8)+UMPByte[3]
WordAt(buf, junk, i) ==
    <<BufAt(buf, junk, i), BufAt(buf, junk, i + 1), BufAt(buf, junk, i + 2), BufAt(buf, junk, i + 3)>>

RECURSIVE UMPMessages(_, _, _, _, _)
\* the while loop of ProcessIncomingUMP: the messages handed to the callback, in order
UMPMessages(buf, junk, ByteCounter, WordCounter, PayloadLength) ==
    IF WordCounter >= PayloadLength THEN <<>>
    ELSE LET MessageSize == UMPSize[MTof(WordAt(buf, junk, ByteCounter)) + 1]
             UMPMsg == [k \in 1 .. MessageSize |-> WordAt(buf, junk, ByteCounter + 4 * (k - 1))]
         IN <<UMPMsg>> \o UMPMessages(buf, junk, ByteCounter + 4 * MessageSize,
                                      WordCounter + MessageSize, PayloadLength)

\* the dedup test of ProcessIncomingUMP
IsReplay(h, PacketNumber) == \E s \in FECSlots : h.ReceivedSequenceCounters[s] = PacketNumber

\* ProcessIncomingUMP on the command at offset base of the reception buffer
ProcessIncomingUMP(h, buf, junk, base) ==
    LET PayloadLength == BufAt(buf, junk, base + 1)
        PacketNumber == BufAt(buf, junk, base + 2) * 256 + BufAt(buf, junk, base + 3)
    IN IF IsReplay(h, PacketNumber) THEN [h |-> h, cb |-> <<>>]
       ELSE [h |-> [h EXCEPT !.LastReceivedUMPCounter = PacketNumber,
                             !.ReceivedSequenceCounters =
                                 [s \in FECSlots |-> IF s < NUM_FEC_ENTRIES - 1 THEN @[s + 1]
                                                     ELSE PacketNumber]],
             cb |-> IF h.UMPCallback # 0
                    THEN UMPMessages(buf, junk, base + 4, 0, PayloadLength)
                    ELSE <<>>]

(* ------------------------------ RunSession ---------------------------- *)

(* A context c carries the handler through one call together with what the  *)
(* call does to the outside: out, the datagrams handed to sendto (each with *)
(* the session state at that moment); cb, the messages handed to the        *)
(* callback; ump, one entry per UMP_DATA command met by the parser; path,   *)
(* the values assigned to SessionState; gen, the new packet built if any.   *)

Ctx(h) == [h |-> h, out |-> <<>>, cb |-> <<>>, ump |-> <<>>, path |-> <<>>, gen |-> <<>>]

\* sendto on UMPSocket
Emit(c, d) ==
    IF c.h.UMPSocket = INVALID_SOCKET THEN c
    ELSE [c EXCEPT !.out = Append(@, [ip |-> d.ip, port |-> d.port, data |-> d.data,
                                      st |-> c.h.SessionState])]

SetState(c, s) == [c EXCEPT !.h.SessionState = s, !.path = Append(@, s)]

\* "Check if timer elapsed"
TimerStep(h) ==
    IF ~h.TimerRunning THEN h
    ELSE LET e == IF h.EventTime > 0 THEN h.EventTime - 1 ELSE h.EventTime
         IN IF e = 0 THEN [h EXCEPT !.EventTime = e, !.TimerRunning = FALSE, !.TimerEvent = TRUE]
            ELSE [h EXCEPT !.EventTime = e]

\* RestartSessionInitiator inside RunSession
RestartCtx(c) ==
    LET h2 == RestartSessionInitiator(c.h)
    IN [c EXCEPT !.h = h2,
                 !.path = IF c.h.IsInitiatorNode THEN Append(@, h2.SessionState) ELSE @]

\* the remote timeout test treating an initiator as it treats a listener
TimeoutStep_NoRestart(c) ==
    IF c.h.SessionState # SESSION_OPENED THEN c
    ELSE LET t == IF c.h.TimeOutRemote > 0 THEN c.h.TimeOutRemote - 1 ELSE c.h.TimeOutRemote
             c1 == [c EXCEPT !.h.TimeOutRemote = t]
         IN IF t # 0 THEN c1
            ELSE SetState(Emit([c1 EXCEPT !.h.ConnectionLost = TRUE],
                               SendBYECommand(BYE_TIMEOUT, c1.h.SessionPartnerIP,
                                              c1.h.SessionPartnerPort)),
                          SESSION_WAIT_INVITE)

\* the remote timeout test at the top of RunSession
TimeoutStep(c) ==
    IF c.h.SessionState # SESSION_OPENED THEN c
    ELSE LET t == IF c.h.TimeOutRemote > 0 THEN c.h.TimeOutRemote - 1 ELSE c.h.TimeOutRemote
             c1 == [c EXCEPT !.h.TimeOutRemote = t]
         IN IF t # 0 THEN c1
            ELSE LET c2 == Emit([c1 EXCEPT !.h.ConnectionLost = TRUE],
                                SendBYECommand(BYE_TIMEOUT, c1.h.SessionPartnerIP,
                                               c1.h.SessionPartnerPort))
                 IN IF c2.h.IsInitiatorNode
                    THEN RestartCtx(SetState(c2, SESSION_CLOSED))
                    ELSE SetState(c2, SESSION_WAIT_INVITE)

NoFlags ==
    [InvitationReceived |-> FALSE, BYEReceived |-> FALSE, InvitationAccepted |-> FALSE,
     PingReceived |-> FALSE, Ping_ID |-> U32(0), SenderIP |-> 0, SenderPort |-> 0]

\* case UMP_DATA_COMMAND with the test of the sender's port left out
OnUMPData_AnyPort(c, rx, buf, PtrParse) ==
    LET accepted == rx.ip = c.h.SessionPartnerIP /\ c.h.SessionState = SESSION_OPENED
        r == IF accepted
             THEN ProcessIncomingUMP([c.h EXCEPT !.TimeOutRemote = TIMEOUT_RESET], buf, rx.junk, PtrParse)
             ELSE [h |-> c.h, cb |-> <<>>]
        pn == BufAt(buf, rx.junk, PtrParse + 2) * 256 + BufAt(buf, rx.junk, PtrParse + 3)
    IN [c EXCEPT !.h = r.h,
                 !.cb = @ \o r.cb,
                 !.ump = Append(@, [accepted |-> accepted,
                                    st |-> c.h.SessionState,
                                    from |-> [ip |-> rx.ip, port |-> rx.port],
                                    peer |-> [ip |-> c.h.SessionPartnerIP,
                                              port |-> c.h.SessionPartnerPort],
                                    plen |-> BufAt(buf, rx.junk, PtrParse + 1),
                                    pn |-> pn, replay |-> IsReplay(c.h, pn),
                                    to0 |-> c.h.TimeOutRemote, to1 |-> r.h.TimeOutRemote,
                                    rsc0 |-> c.h.ReceivedSequenceCounters,
                                    rsc1 |-> r.h.ReceivedSequenceCounters,
                                    cbs |-> r.cb])]

\* case UMP_DATA_COMMAND of the parser
OnUMPData(c, rx, buf, PtrParse) ==
    LET accepted == /\ rx.ip = c.h.SessionPartnerIP
                    /\ rx.port = c.h.SessionPartnerPort
                    /\ c.h.SessionState = SESSION_OPENED
        r == IF accepted
             THEN ProcessIncomingUMP([c.h EXCEPT !.TimeOutRemote = TIMEOUT_RESET], buf, rx.junk, PtrParse)
             ELSE [h |-> c.h, cb |-> <<>>]
    IN [c EXCEPT !.h = r.h,
                 !.cb = @ \o r.cb,
                 !.ump = Append(@, [accepted |-> accepted,
                                    st |-> c.h.SessionState,
                                    from |-> [ip |-> rx.ip, port |-> rx.port],
                                    peer |-> [ip |-> c.h.SessionPartnerIP,
                                              port |-> c.h.SessionPartnerPort],
                                    plen |-> BufAt(buf, rx.junk, PtrParse + 1),
                                    pn |-> BufAt(buf, rx.junk, PtrParse + 2) * 256
                                           + BufAt(buf, rx.junk, PtrParse + 3),
                                    replay |-> IsReplay(c.h, BufAt(buf, rx.junk, PtrParse + 2) * 256
                                                             + BufAt(buf, rx.junk, PtrParse + 3)),
                                    to0 |-> c.h.TimeOutRemote, to1 |-> r.h.TimeOutRemote,
                                    rsc0 |-> c.h.ReceivedSequenceCounters,
                                    rsc1 |-> r.h.ReceivedSequenceCounters,
                                    cbs |-> r.cb])]

RECURSIVE ParseLoop(_, _, _, _, _)
\* the loop over the NetUMP commands of one datagram
ParseLoop(c, fl, rx, buf, PtrParse) ==
    IF PtrParse >= Len(buf) THEN [c |-> c, fl |-> fl]
    ELSE LET code == BufAt(buf, rx.junk, PtrParse)
             PayloadSize == BufAt(buf, rx.junk, PtrParse + 1) * 4
             c1 == IF code = UMP_DATA_COMMAND THEN OnUMPData(c, rx, buf, PtrParse)
                   ELSE IF code = PING_REPLY_COMMAND /\ c.h.SessionState = SESSION_OPENED
                        THEN [c EXCEPT !.h.TimeOutRemote = TIMEOUT_RESET]
                   ELSE c
             fl1 == IF code = INVITATION_COMMAND THEN [fl EXCEPT !.InvitationReceived = TRUE]
                    ELSE IF code = BYE_COMMAND THEN [fl EXCEPT !.BYEReceived = TRUE]
                    ELSE IF code = INVITATION_ACCEPTED_COMMAND
                         THEN [fl EXCEPT !.InvitationAccepted = TRUE]
                    ELSE IF code = PING_COMMAND
                         THEN [fl EXCEPT !.PingReceived = TRUE,
                                         !.Ping_ID = htonl(Load(<<BufAt(buf, rx.junk, PtrParse + 4),
                                                                  BufAt(buf, rx.junk, PtrParse + 5),
                                                                  BufAt(buf, rx.junk, PtrParse + 6),
                                                                  BufAt(buf, rx.junk, PtrParse + 7)>>))]
                    ELSE fl
         IN ParseLoop(c1, fl1, rx, buf, PtrParse + 4 + PayloadSize)

\* "Check if something has been received": rx.has is DataAvail, rx.data the datagram
\* (recvfrom keeps at most sizeof(ReceptionBuffer) bytes of it)
ReceiveStep(c, rx) ==
    LET buf == IF Len(rx.data) > ReceptionBufferSize
               THEN SubSeq(rx.data, 1, ReceptionBufferSize) ELSE rx.data
    IN IF ~rx.has \/ c.h.UMPSocket = INVALID_SOCKET \/ Len(buf) = 0
          \/ WordAt(buf, rx.junk, 0) # UMP_SIGNATURE
       THEN [c |-> c, fl |-> NoFlags]
       ELSE ParseLoop(c, [NoFlags EXCEPT !.SenderIP = rx.ip, !.SenderPort = rx.port], rx, buf, 4)

\* the invitation test without the test of the role
InvitationStep_NoRoleTest(c, fl) ==
    IF ~fl.InvitationReceived THEN c
    ELSE IF c.h.SessionState = SESSION_WAIT_INVITE
         THEN LET c1 == SetState([c EXCEPT !.h.TimeOutRemote = TIMEOUT_RESET], SESSION_OPENED)
                  c2 == [c1 EXCEPT !.h.SessionPartnerIP = fl.SenderIP,
                                   !.h.SessionPartnerPort = fl.SenderPort]
                  c3 == Emit(c2, SendInvitationAcceptedCommand(c2.h))
              IN [c3 EXCEPT !.h = ResetFECMemory(@)]
         ELSE c

\* if (InvitationReceived)
InvitationStep(c, fl) ==
    IF ~fl.InvitationReceived THEN c
    ELSE IF ~c.h.IsInitiatorNode
         THEN IF c.h.SessionState = SESSION_WAIT_INVITE
              THEN LET c1 == SetState([c EXCEPT !.h.TimeOutRemote = TIMEOUT_RESET], SESSION_OPENED)
                       c2 == [c1 EXCEPT !.h.SessionPartnerIP = fl.SenderIP,
                                        !.h.SessionPartnerPort = fl.SenderPort]
                       c3 == Emit(c2, SendInvitationAcceptedCommand(c2.h))
                   IN [c3 EXCEPT !.h = ResetFECMemory(@)]
              ELSE c
         ELSE Emit(c, SendBYECommand(BYE_TOO_MANY_SESSIONS, fl.SenderIP, fl.SenderPort))

\* the PING answer carrying the endpoint's own PING counter
PingStep_OwnCounter(c, fl) ==
    IF fl.PingReceived THEN Emit(c, SendPINGReplyCommand(c.h, U32(c.h.PINGIdCounter))) ELSE c

\* the PING test of an endpoint that never answers
PingStep_Mute(c, fl) ==
    c

\* if (PingReceived)
PingStep(c, fl) ==
    IF fl.PingReceived THEN Emit(c, SendPINGReplyCommand(c.h, fl.Ping_ID)) ELSE c

\* the BYE test that leaves ConnectionLost alone
ByeStep_NoLatch(c, fl) ==
    IF ~fl.BYEReceived THEN c
    ELSE IF fl.SenderIP = c.h.SessionPartnerIP /\ fl.SenderPort = c.h.SessionPartnerPort
         THEN LET c1 == Emit(c, SendBYEReplyCommand(c.h.SessionPartnerIP, c.h.SessionPartnerPort))
              IN IF ~c1.h.IsInitiatorNode
                 THEN [SetState(c1, SESSION_WAIT_INVITE)
                         EXCEPT !.h.SessionPartnerIP = 0, !.h.SessionPartnerPort = 0]
                 ELSE RestartCtx(SetState(c1, SESSION_CLOSED))
         ELSE Emit(c, SendBYEReplyCommand(fl.SenderIP, fl.SenderPort))

\* the BYE test comparing the sender's address only, not its port
ByeStep_IpOnly(c, fl) ==
    IF ~fl.BYEReceived THEN c
    ELSE IF fl.SenderIP = c.h.SessionPartnerIP
         THEN LET c1 == Emit(c, SendBYEReplyCommand(c.h.SessionPartnerIP, c.h.SessionPartnerPort))
                  c2 == IF ~c1.h.IsInitiatorNode
                        THEN [SetState(c1, SESSION_WAIT_INVITE)
                                EXCEPT !.h.SessionPartnerIP = 0, !.h.SessionPartnerPort = 0]
                        ELSE RestartCtx(SetState(c1, SESSION_CLOSED))
              IN [c2 EXCEPT !.h.ConnectionLost = TRUE]
         ELSE Emit(c, SendBYEReplyCommand(fl.SenderIP, fl.SenderPort))

\* if (BYEReceived)
ByeStep(c, fl) ==
    IF ~fl.BYEReceived THEN c
    ELSE IF fl.SenderIP = c.h.SessionPartnerIP /\ fl.SenderPort = c.h.SessionPartnerPort
         THEN LET c1 == Emit(c, SendBYEReplyCommand(c.h.SessionPartnerIP, c.h.SessionPartnerPort))
                  c2 == IF ~c1.h.IsInitiatorNode
                        THEN [SetState(c1, SESSION_WAIT_INVITE)
                                EXCEPT !.h.SessionPartnerIP = 0, !.h.SessionPartnerPort = 0]
                        ELSE RestartCtx(SetState(c1, SESSION_CLOSED))
              IN [c2 EXCEPT !.h.ConnectionLost = TRUE]
         ELSE Emit(c, SendBYEReplyCommand(fl.SenderIP, fl.SenderPort))

\* The bytes sendto reads from UMPCommand[0 .. size-1].  RunSession's array has
\* UMPCommandLen words; the words GenerateUMPCommand wrote beyond it lie in memory
\* that does not belong to the array, and env.ovf says whether they are still there
\* when sendto reads them or were overwritten in between (by env.junk).
WireImage(UMPCommand, env) ==
    StoreAll([i \in 1 .. Len(UMPCommand) |->
                 IF i > UMPCommandLen /\ env.ovf = "clobbered"
                 THEN <<env.junk, env.junk, env.junk, env.junk>>
                 ELSE UMPCommand[i]])

\* OpenedStep sending its PING as soon as PINGDelayCounter reaches 10000
OpenedStep_PingEarly(c, g, env) ==
    LET c1 == IF g.size > 0
              THEN Emit(c, [ip |-> c.h.SessionPartnerIP, port |-> c.h.SessionPartnerPort,
                            data |-> WireImage(g.UMPCommand, env)])
              ELSE c
        pd == c1.h.PINGDelayCounter + 1
    IN IF pd >= PingDelayLimit
       THEN LET c2 == [c1 EXCEPT !.h.PINGDelayCounter = 0, !.h.PINGIdCounter = @ + 1]
            IN Emit(c2, SendPINGCommand(c2.h, U32(c2.h.PINGIdCounter)))
       ELSE [c1 EXCEPT !.h.PINGDelayCounter = pd]

\* "Send UMP data if something in the FIFO", then the PING timer
OpenedStep(c, g, env) ==
    LET c1 == IF g.size > 0
              THEN Emit(c, [ip |-> c.h.SessionPartnerIP, port |-> c.h.SessionPartnerPort,
                            data |-> WireImage(g.UMPCommand, env)])
              ELSE c
        pd == c1.h.PINGDelayCounter + 1
    IN IF pd > PingDelayLimit
       THEN LET c2 == [c1 EXCEPT !.h.PINGDelayCounter = 0, !.h.PINGIdCounter = @ + 1]
            IN Emit(c2, SendPINGCommand(c2.h, U32(c2.h.PINGIdCounter)))
       ELSE [c1 EXCEPT !.h.PINGDelayCounter = pd]

\* InviteStep waiting 999 ms before the next INVITATION
InviteStep_ShortRetry(c, fl) ==
    IF fl.InvitationAccepted
    THEN LET c1 == SetState([c EXCEPT !.h.SessionPartnerIP = fl.SenderIP], SESSION_OPENED)
         IN [c1 EXCEPT !.h = ResetFECMemory(@)]
    ELSE IF ~c.h.TimerRunning /\ c.h.TimerEvent
         THEN LET c1 == Emit(c, SendInvitationCommand(c.h))
              IN [c1 EXCEPT !.h = [PrepareTimerEvent(@, InviteRetryTime - 1)
                                     EXCEPT !.InviteCount = @ + 1]]
         ELSE c

\* "We are inviting remote node"
InviteStep(c, fl) ==
    IF fl.InvitationAccepted
    THEN LET c1 == SetState([c EXCEPT !.h.SessionPartnerIP = fl.SenderIP], SESSION_OPENED)
         IN [c1 EXCEPT !.h = ResetFECMemory(@)]
    ELSE IF ~c.h.TimerRunning /\ c.h.TimerEvent
         THEN LET c1 == Emit(c, SendInvitationCommand(c.h))
              IN [c1 EXCEPT !.h = [PrepareTimerEvent(@, InviteRetryTime)
                                     EXCEPT !.InviteCount = @ + 1]]
         ELSE c

\* the state machine sending what it assembled in every state but Invite
MachineStep_NoStateTest(c, fl, env) ==
    IF c.h.SessionState = SESSION_CLOSED THEN c
    ELSE LET g == GenerateUMPCommand(c.h)
             c1 == [c EXCEPT !.h = g.h, !.gen = g.NewUMPCommand]
         IN IF c1.h.SessionState = SESSION_INVITE THEN InviteStep(c1, fl)
            ELSE OpenedStep(c1, g, env)

\* "State machine manager"
MachineStep(c, fl, env) ==
    IF c.h.SessionState = SESSION_CLOSED THEN c
    ELSE LET g == GenerateUMPCommand(c.h)
             c1 == [c EXCEPT !.h = g.h, !.gen = g.NewUMPCommand]
         IN IF c1.h.SessionState = SESSION_OPENED THEN OpenedStep(c1, g, env)
            ELSE IF c1.h.SessionState = SESSION_INVITE THEN InviteStep(c1, fl)
            ELSE c1

\* RunSession: one tick.  rx is what the socket holds for this tick, env the
\* outcomes of what the code leaves undefined.
RunSession(h, rx, env) ==
    IF h.SocketLocked THEN Ctx(h)
    ELSE LET c0 == TimeoutStep(Ctx(TimerStep(h)))
             r == ReceiveStep(c0, [rx EXCEPT !.junk = env.junk])
         IN MachineStep(ByeStep(PingStep(InvitationStep(r.c, r.fl), r.fl), r.fl), r.fl, env)

CloseSession(h) ==
    IF h.SessionState = SESSION_OPENED
    THEN Emit(SetState(Ctx(h), SESSION_CLOSED),
              SendBYECommand(BYE_USER_TERMINATED, h.SessionPartnerIP, h.SessionPartnerPort))
    ELSE Ctx(h)

\* no datagram waiting on the socket
NoRx == [has |-> FALSE, ip |-> 0, port |-> 0, data |-> <<>>, junk |-> 0]

Rx(ip, port, data) == [has |-> TRUE, ip |-> ip, port |-> port, data |-> data, junk |-> 0]

(* ------------------------------ environment --------------------------- *)

\* A is started as initiator towards B, B as listener; X is another process on
\* B's host, Y another host
Nodes == {"A", "B"}
AddrA == [ip |-> 1, port |-> 8001]
AddrB == [ip |-> 2, port |-> 8000]
AddrX == [ip |-> 2, port |-> 9000]
AddrY == [ip |-> 3, port |-> 8000]
NodeAddr == [A |-> AddrA, B |-> AddrB]
Other(n) == IF n = "A" THEN "B" ELSE "A"

\* InitiateSession as the application of node n calls it
Start(n, h, SocketOK) ==
    IF n = "A" THEN InitiateSession(h, AddrB.ip, AddrB.port, AddrA.port, TRUE, SocketOK)
    ELSE InitiateSession(h, 0, 0, AddrB.port, FALSE, SocketOK)

\* UMP messages the applications send: one word (MT 2), two words (MT 4), four words (MT 5)
Msg1(k) == <<<<32, 144, 64, k>>>>
Msg2(k) == <<<<64, 144, 64, 0>>, <<0, 0, 0, k>>>>
Msg4(k) == <<<<80, 0, 0, k>>, <<0, 0, 0, 1>>, <<0, 0, 0, 2>>, <<0, 0, 0, 3>>>>

\* bytes the program may find where it never wrote
JunkBytes == {0, 255}

\* the outcomes of one tick that the code leaves open: none unless the datagram
\* assembled this tick is longer than RunSession's UMPCommand array
Envs(h) ==
    IF h.SessionState # SESSION_CLOSED /\ ~h.SocketLocked
       /\ GenerateUMPCommand(h).size > UMPCommandLen
    THEN {[junk |-> j, ovf |-> o] : j \in JunkBytes, o \in {"intact", "clobbered"}}
    ELSE {[junk |-> 0, ovf |-> "intact"]}

RECURSIVE DeliverAll(_, _, _, _)
\* the socket queues after node n handed the datagrams outs to sendto: a datagram
\* reaches the node bound to its destination, if there is one
DeliverAll(sk, Hs, n, outs) ==
    IF outs = <<>> THEN sk
    ELSE LET d == Head(outs)
             rx == Rx(NodeAddr[n].ip, Hs[n].UMPSocket, d.data)
         IN DeliverAll([m \in Nodes |->
                           IF m # n /\ NodeAddr[m].ip = d.ip /\ Hs[m].UMPSocket = d.port
                           THEN Append(sk[m], rx) ELSE sk[m]],
                       Hs, n, Tail(outs))

\* the command code of the first command of a datagram
FirstCommand(data) == IF Len(data) >= 5 THEN data[5] ELSE -1

RECURSIVE CountCommand(_, _)
\* how many of the datagrams outs start with command code
CountCommand(outs, code) ==
    IF outs = <<>> THEN 0
    ELSE (IF FirstCommand(Head(outs).data) = code THEN 1 ELSE 0) + CountCommand(Tail(outs), code)

\* what the last operation did
Last(n, op, c, ret) ==
    [n |-> n, op |-> op, out |-> c.out, cb |-> c.cb, ump |-> c.ump, path |-> c.path,
     gen |-> c.gen, ret |-> ret]

NoLast == Last("A", "none", Ctx(CNetUMPHandler), 0)

\* what has been seen of the PING and invitation timers: run, the ticks in a row spent
\* in Opened without sending UMP data; age1 and age2, how many ticks ago the last two
\* PINGs of that run were sent (-1: none); id and prev, the ids of the last two PINGs;
\* since, the ticks since the last restart of an initiator (-1: none awaited); hit,
\* the first INVITATION after that restart was sent in the last tick; ip and port,
\* the peer when the restart happened; inv, the ticks an initiator spent in Invite
\* since it was started, restarted or sent an INVITATION (-1: not in Invite); first,
\* no INVITATION was sent since the start; gap, in a tick that sent an INVITATION,
\* the value of inv it ended (-1 otherwise), and wasFirst, the value of first then
Tm0 ==
    [run |-> 0, age1 |-> -1, age2 |-> -1, id |-> <<>>, prev |-> <<>>,
     since |-> -1, hit |-> FALSE, ip |-> 0, port |-> 0,
     inv |-> -1, first |-> FALSE, gap |-> -1, wasFirst |-> FALSE]

Gh0 ==
    [now |-> [n \in Nodes |-> 0],
     sentInv |-> 0, sentAcc |-> 0,
     pushed |-> [n \in Nodes |-> <<>>],
     delivered |-> [n \in Nodes |-> <<>>],
     acc |-> {}, acc0 |-> {},
     sent |-> <<>>, prevpn |-> -1, prevpn0 |-> -1,
     got |-> <<>>,
     half |-> -1,
     sends |-> 0, msg |-> <<>>, pre |-> CNetUMPHandler,
     drained |-> <<>>,
     quiet |-> [n \in Nodes |-> 0],
     rx |-> NoRx,
     reads |-> [n \in Nodes |-> -1],
     asked |-> [n \in Nodes |-> -1],
     cbk |-> [UMPCallback |-> 0, ClientInstance |-> 0, pc |-> "idle"],
     epoch |-> [n \in Nodes |-> 0],
     msgEpoch |-> [n \in Nodes |-> -1],
     opener |-> [n \in Nodes |-> [ip |-> 0, port |-> 0]],
     closed |-> [n \in Nodes |-> FALSE],
     shut |-> [n \in Nodes |-> FALSE],
     fails |-> 0,
     starts |-> 0, calls |-> 0,
     tm |-> Tm0]

\* the thread that calls SendUMPMessage: where it stands in the call, its locals,
\* and the stores it has issued that the tick thread does not see yet; when it
\* calls SetCallback, the arguments of the call and its local SocketState
Th0 ==
    [pc |-> "idle", UMPData |-> <<>>, WordCounter |-> 0, TmpWrite |-> 0, stores |-> <<>>,
     CallbackFunc |-> 0, UserInstance |-> 0, SocketState |-> FALSE]

\* every endpoint constructed, nothing started
Constructed ==
    /\ H = [n \in Nodes |-> CNetUMPHandler]
    /\ sock = [n \in Nodes |-> <<>>]
    /\ net = {}
    /\ last = NoLast
    /\ gh = Gh0
    /\ th = Th0

(* ---------------- two endpoints over a network that delivers ----------- *)

MaxPairTicks == 6
MaxSkew == 1
MaxPairMsgs == 1

InitPair == Constructed

\* the application of n calls InitiateSession (the listener first)
PairStart(n) ==
    /\ H[n].SocketLocked
    /\ n = "A" => ~H["B"].SocketLocked
    /\ LET r == Start(n, H[n], TRUE)
       IN /\ H' = [H EXCEPT ![n] = r.h]
          /\ last' = Last(n, "InitiateSession", Ctx(r.h), r.ret)
    /\ UNCHANGED <<sock, net, gh, th>>

\* the 1 kHz clock of n: the two clocks run at the same rate, at most MaxSkew apart
PairTickReady(n) ==
    /\ ~H[n].SocketLocked
    /\ gh.now[n] < MaxPairTicks
    /\ ~H[Other(n)].SocketLocked => gh.now[n] < gh.now[Other(n)] + MaxSkew

PairTick(n) ==
    /\ PairTickReady(n)
    /\ \E env \in Envs(H[n]) :
         LET rx == IF sock[n] # <<>> THEN Head(sock[n]) ELSE NoRx
             c == RunSession(H[n], rx, env)
             Hn == [H EXCEPT ![n] = c.h]
         IN /\ H' = Hn
            /\ sock' = DeliverAll([sock EXCEPT ![n] = IF @ # <<>> THEN Tail(@) ELSE @],
                                  Hn, n, c.out)
            /\ last' = Last(n, "RunSession", c, 0)
            /\ gh' = [gh EXCEPT !.now[n] = @ + (IF H[Other(n)].SocketLocked THEN 0 ELSE 1),
                                !.sentInv = @ + (IF n = "A" THEN CountCommand(c.out, INVITATION_COMMAND) ELSE 0),
                                !.sentAcc = @ + (IF n = "B" THEN CountCommand(c.out, INVITATION_ACCEPTED_COMMAND) ELSE 0),
                                !.delivered[n] = @ \o c.cb]
    /\ UNCHANGED <<net, th>>

\* the application of n sends its next UMP message
PairSend(n) ==
    /\ Len(gh.pushed[n]) < MaxPairMsgs
    /\ \E m \in {Msg1(Len(gh.pushed[n]))} :
         LET r == SendUMPMessage(H[n], m)
         IN /\ r.ret
            /\ H' = [H EXCEPT ![n] = r.h]
            /\ last' = Last(n, "SendUMPMessage", Ctx(r.h), r.ret)
            /\ gh' = [gh EXCEPT !.pushed[n] = Append(@, m)]
    /\ UNCHANGED <<sock, net, th>>

NextPair == \E n \in Nodes : PairStart(n) \/ PairTick(n) \/ PairSend(n)

\* the clock of n keeps ticking: weak fairness of PairTick(n), whose enabling
\* condition is PairTickReady(n) (gh.now[n] counts the ticks of n since both
\* endpoints are started, and every such tick advances it)
PairTickFair(n) == []<>(~PairTickReady(n)) \/ []<><<PairTick(n)>>_vars

SpecPair ==
    /\ InitPair
    /\ [][NextPair]_vars
    /\ \A n \in Nodes : WF_vars(PairStart(n)) /\ PairTickFair(n)

\* C1: with the listener started and the initiator started towards it, both ticked,
\* over a network that delivers every datagram: the initiator has sent an INVITATION
\* once it has run 2 ticks, the listener is Opened only after sending
\* INVITATION_ACCEPTED, and eventually GetSessionStatus returns 3 on both.
C1_Handshake ==
    /\ [](gh.now["A"] >= 2 => gh.sentInv >= 1)
    /\ [](H["B"].SessionState = SESSION_OPENED => gh.sentAcc >= 1)
    /\ <>(GetSessionStatus(H["A"]) = 3 /\ GetSessionStatus(H["B"]) = 3)

C1_BothOpened ==
    /\ GetSessionStatus(H["A"]) = 3 /\ GetSessionStatus(H["B"]) = 3
    /\ gh.sentInv = 1 /\ gh.sentAcc = 1
    /\ gh.now["A"] <= 2

(* -------------- one endpoint facing an arbitrary network -------------- *)

MaxOpenTicks == 3
MaxOpenMsgs == 2

\* one UMP data packet: header word and payload, as they lie in a datagram
DataPacket(PacketNumber, msg) ==
    <<htonl(PacketHeader(Len(msg), PacketNumber))>> \o [i \in 1 .. Len(msg) |-> htonl(msg[i])]

\* a datagram: the signature and the packets
Datagram(packets) == StoreAll(<<htonl(UMP_SIGNATURE)>> \o packets)

\* packet numbers the network is seen to carry
WirePacketNumbers == {0, 1, SeqSentinel}

\* what may arrive at an endpoint
WireDatagrams ==
    {InvitationPacket(INVITATION_COMMAND), InvitationPacket(INVITATION_ACCEPTED_COMMAND),
     SendBYECommand(BYE_USER_TERMINATED, 0, 0).data}
    \cup {Datagram(DataPacket(pn, Msg1(pn % 256))) : pn \in WirePacketNumbers}

\* who may send to endpoint n: the other endpoint, another port of its host, another host
WireSources(n) == {NodeAddr[Other(n)], AddrX, AddrY}

Arrivals(n) == {NoRx} \cup {Rx(a.ip, a.port, d) : a \in WireSources(n), d \in WireDatagrams}

RECURSIVE AcceptedNumbers(_)
\* the packet numbers of the UMP data commands that were processed
AcceptedNumbers(ump) ==
    IF ump = <<>> THEN {}
    ELSE (IF Head(ump).accepted THEN {Head(ump).pn} ELSE {}) \cup AcceptedNumbers(Tail(ump))

\* the packet numbers processed since the session of this endpoint opened
Accepted(acc, c) ==
    IF \E i \in 1 .. Len(c.path) : c.path[i] = SESSION_OPENED THEN {}
    ELSE acc \cup AcceptedNumbers(c.ump)

InitOpen == Constructed

\* the application starts one of the endpoints; CreateUDPSocket may fail
OpenStart(n) ==
    /\ \A m \in Nodes : H[m].SocketLocked
    /\ \E SocketOK \in BOOLEAN :
         LET r == Start(n, H[n], SocketOK)
         IN /\ H' = [H EXCEPT ![n] = r.h]
            /\ last' = Last(n, "InitiateSession", Ctx(r.h), r.ret)
    /\ UNCHANGED <<sock, net, gh, th>>

\* one tick of n, with whatever the network hands to it
OpenTick(n) ==
    /\ ~H[n].SocketLocked
    /\ gh.now[n] < MaxOpenTicks
    /\ \E rx \in Arrivals(n), env \in Envs(H[n]) :
         LET c == RunSession(H[n], rx, env)
         IN /\ H' = [H EXCEPT ![n] = c.h]
            /\ last' = Last(n, "RunSession", c, 0)
            /\ gh' = [gh EXCEPT !.now[n] = @ + 1,
                                !.delivered[n] = @ \o c.cb,
                                !.acc0 = gh.acc,
                                !.acc = Accepted(gh.acc, c)]
    /\ UNCHANGED <<sock, net, th>>

\* the application sends a message, whatever the session state
OpenSend(n) ==
    /\ ~H[n].SocketLocked
    /\ Len(gh.pushed[n]) < MaxOpenMsgs
    /\ \E m \in {Msg1(Len(gh.pushed[n])), Msg2(Len(gh.pushed[n]))} :
         LET r == SendUMPMessage(H[n], m)
         IN /\ H' = [H EXCEPT ![n] = r.h]
            /\ last' = Last(n, "SendUMPMessage", Ctx(r.h), r.ret)
            /\ gh' = [gh EXCEPT !.pushed[n] = IF r.ret THEN Append(@, m) ELSE @]
    /\ UNCHANGED <<sock, net, th>>

\* the application closes the session
OpenClose(n) ==
    /\ ~H[n].SocketLocked
    /\ LET c == CloseSession(H[n])
       IN /\ H' = [H EXCEPT ![n] = c.h]
          /\ last' = Last(n, "CloseSession", c, 0)
    /\ UNCHANGED <<sock, net, gh, th>>

NextOpen == \E n \in Nodes : OpenStart(n) \/ OpenTick(n) \/ OpenSend(n) \/ OpenClose(n)

SpecOpen == InitOpen /\ [][NextOpen]_vars

\* C2: a datagram that carries UMP data is handed to sendto only while the
\* session state is Opened at that moment.
C2_DataOnlyWhenOpened ==
    \A i \in 1 .. Len(last.out) :
        FirstCommand(last.out[i].data) = UMP_DATA_COMMAND => last.out[i].st = SESSION_OPENED

C2_DataSent ==
    /\ last.op = "RunSession"
    /\ \E i \in 1 .. Len(last.out) :
           /\ FirstCommand(last.out[i].data) = UMP_DATA_COMMAND
           /\ last.out[i].st = SESSION_OPENED
           /\ last.out[i].ip = H[last.n].SessionPartnerIP

RECURSIVE CallbacksOf(_)
\* the messages the UMP data commands of one tick handed to the callback
CallbacksOf(ump) == IF ump = <<>> THEN <<>> ELSE Head(ump).cbs \o CallbacksOf(Tail(ump))

\* C3: the callback is invoked only for a UMP data command met while the state is
\* Opened and whose datagram came from (SessionPartnerIP, SessionPartnerPort); any
\* other UMP data command leaves TimeOutRemote and the dedup window as they were.
C3_CallbackOnlyFromPeer ==
    /\ last.cb = CallbacksOf(last.ump)
    /\ \A i \in 1 .. Len(last.ump) :
           LET e == last.ump[i]
               fromPeer == e.st = SESSION_OPENED /\ e.from = e.peer
           IN /\ e.cbs # <<>> => fromPeer
              /\ ~fromPeer => e.cbs = <<>> /\ e.to1 = e.to0 /\ e.rsc1 = e.rsc0

C3_OtherPortDropped ==
    /\ last.op = "RunSession"
    /\ gh.delivered[last.n] # <<>>
    /\ \E i \in 1 .. Len(last.ump) :
           LET e == last.ump[i]
           IN /\ e.st = SESSION_OPENED
              /\ e.from.ip = e.peer.ip /\ e.from.port # e.peer.port
              /\ ~e.replay /\ e.plen > 0
              /\ e.cbs = <<>> /\ e.to1 = e.to0 /\ e.to0 < TIMEOUT_RESET

\* C6: of the feeds of one UMP data packet to an Opened receiver, the first hands
\* the packet's messages to the callback and every later one hands it nothing.
C6_DedupIdempotent ==
    \A i \in 1 .. Len(last.ump) :
        LET e == last.ump[i]
            fedBefore == e.pn \in gh.acc0 \cup AcceptedNumbers(SubSeq(last.ump, 1, i - 1))
        IN e.accepted => e.cbs = IF fedBefore THEN <<>> ELSE <<Msg1(e.pn % 256)>>

(* ------------- an Opened endpoint sending bursts of messages ---------- *)

MaxDataTicks == 4
MaxDataMsgs == 3
Backlog == 15

\* the initiator after InitiateSession and one tick that receives INVITATION_ACCEPTED
\* from the endpoint it invited
OpenedInitiator ==
    RunSession(Start("A", CNetUMPHandler, TRUE).h,
               Rx(AddrB.ip, AddrB.port, InvitationPacket(INVITATION_ACCEPTED_COMMAND)),
               [junk |-> 0, ovf |-> "intact"]).h

RECURSIVE Burst(_, _, _)
\* the calls SendUMPMessage(Msg4(lo)), ..., SendUMPMessage(Msg4(hi)), in this order
\* (the first half's result is evaluated before the second half is entered)
Burst(h, lo, hi) ==
    IF lo > hi THEN h
    ELSE IF lo = hi THEN SendUMPMessage(h, Msg4(lo % 256)).h
    ELSE LET mid == (lo + hi) \div 2
             h1 == Burst(h, lo, mid)
         IN IF h1.WritePtr = h1.WritePtr THEN Burst(h1, mid + 1, hi) ELSE h1

\* the datagram of outs that carries UMP data, if there is one
DataOut(outs) ==
    IF \E i \in 1 .. Len(outs) : FirstCommand(outs[i].data) = UMP_DATA_COMMAND
    THEN <<outs[CHOOSE i \in 1 .. Len(outs) : FirstCommand(outs[i].data) = UMP_DATA_COMMAND]>>
    ELSE <<>>

\* the last k elements of a sequence
LastOf(q, k) == IF Len(q) <= k THEN q ELSE SubSeq(q, Len(q) - k + 1, Len(q))

RECURSIVE Flatten(_)
Flatten(q) == IF q = <<>> THEN <<>> ELSE Head(q) \o Flatten(Tail(q))

\* the packet-number field of the newly built packet, read from the datagram as sent:
\* the new packet is the last Len(gen) words of the datagram
WirePacketNumber(data, gen) ==
    LET off == Len(data) - 4 * Len(gen)
    IN data[off + 3] * 256 + data[off + 4]

Opens(c) == \E i \in 1 .. Len(c.path) : c.path[i] = SESSION_OPENED

InitData ==
    /\ H = [n \in Nodes |-> IF n = "A" THEN Burst(OpenedInitiator, 1, Backlog) ELSE CNetUMPHandler]
    /\ sock = [n \in Nodes |-> <<>>]
    /\ net = {}
    /\ last = NoLast
    /\ gh = Gh0
    /\ th = Th0

\* what the peer may send meanwhile
DataArrivals(n) ==
    {NoRx} \cup {Rx(NodeAddr[Other(n)].ip, NodeAddr[Other(n)].port, d) :
                    d \in {SendBYECommand(BYE_USER_TERMINATED, 0, 0).data,
                           InvitationPacket(INVITATION_ACCEPTED_COMMAND)}}

DataTick(n) ==
    /\ ~H[n].SocketLocked
    /\ gh.now[n] < MaxDataTicks
    /\ \E rx \in DataArrivals(n), env \in Envs(H[n]) :
         LET c == RunSession(H[n], rx, env)
             d == DataOut(c.out)
             sent0 == IF Opens(c) THEN <<>> ELSE gh.sent
         IN /\ H' = [H EXCEPT ![n] = c.h]
            /\ last' = Last(n, "RunSession", c, 0)
            /\ gh' = [gh EXCEPT !.now[n] = @ + 1,
                                !.pre = H[n],
                                !.sent = IF d # <<>> THEN LastOf(Append(sent0, c.gen), NUM_FEC_ENTRIES)
                                         ELSE sent0,
                                !.prevpn = IF d # <<>> THEN WirePacketNumber(d[1].data, c.gen)
                                           ELSE @,
                                !.prevpn0 = IF d # <<>> THEN gh.prevpn ELSE @]
    /\ UNCHANGED <<sock, net, th>>

DataSend(n) ==
    /\ ~H[n].SocketLocked
    /\ Len(gh.pushed[n]) < MaxDataMsgs
    /\ \E m \in {Msg1(Len(gh.pushed[n])), Msg4(Len(gh.pushed[n]))} :
         LET r == SendUMPMessage(H[n], m)
         IN /\ r.ret
            /\ H' = [H EXCEPT ![n] = r.h]
            /\ last' = Last(n, "SendUMPMessage", Ctx(r.h), r.ret)
            /\ gh' = [gh EXCEPT !.pushed[n] = Append(@, m)]
    /\ UNCHANGED <<sock, net, th>>

NextData == \E n \in Nodes : DataTick(n) \/ DataSend(n)

SpecData == InitData /\ [][NextData]_vars

\* C4: over any run, the packet-number field of each new UMP data packet an
\* endpoint emits is the field of the packet it emitted before plus 1 modulo 2^16.
C4_NumbersConsecutive ==
    last.op = "RunSession" /\ DataOut(last.out) # <<>> /\ gh.prevpn0 # -1
        => gh.prevpn = (gh.prevpn0 + 1) % SeqModulus

\* C5: with FEC enabled, an emitted UMP data datagram is, after its signature, the
\* last min(5, n) packets emitted in the session, oldest first, the new one last.
C5_FECTailShape ==
    last.op = "RunSession" /\ DataOut(last.out) # <<>>
    /\ H[last.n].ErrorCorrectionMode = ERROR_CORRECTION_FEC
        => LET data == DataOut(last.out)[1].data
           IN SubSeq(data, 5, Len(data)) = StoreAll(Flatten(gh.sent))

\* the words queued between the cursors, oldest first
Queued(f, ReadPtr, WritePtr) ==
    [i \in 1 .. ((WritePtr - ReadPtr + UMP_FIFO_SIZE) % UMP_FIFO_SIZE) |->
        FifoLoad(f, (ReadPtr + i - 1) % UMP_FIFO_SIZE)]

\* the messages the application queued, in the order of its calls: those of the
\* initial burst, then those sent since
AllPushed == [k \in 1 .. Backlog |-> Msg4(k % 256)] \o gh.pushed["A"]

\* C31: the packet a tick builds has a payload of 1 to 64 words; these are, in FIFO
\* order, the whole messages at the front of the queue, which leave the queue; the
\* first message that does not fit within 64 words stays at the front of the queue.
C31_WholeMessages ==
    (last.op = "RunSession" /\ last.gen # <<>>) =>
        LET payload == [i \in 1 .. (Len(last.gen) - 1) |-> htonl(last.gen[i + 1])]
            q0 == Queued(gh.pre.FIFO, gh.pre.ReadPtr, gh.pre.WritePtr)
            q1 == Queued(H[last.n].FIFO, H[last.n].ReadPtr, H[last.n].WritePtr)
        IN /\ Len(payload) \in 1 .. 64
           /\ htonl(last.gen[1])[2] = Len(payload)
           /\ q0 = payload \o q1
           /\ \E i \in 1 .. Len(AllPushed), j \in 1 .. Len(AllPushed) :
                 /\ i <= j
                 /\ payload = Flatten(SubSeq(AllPushed, i, j))
                 /\ q1 = Flatten(SubSeq(AllPushed, j + 1, Len(AllPushed)))
                 /\ j < Len(AllPushed) => Len(payload) + Len(AllPushed[j + 1]) > 64

\* a tick built a packet of 61 words and left a four-word message at the front of
\* the queue, which the next tick sends
C31_MessageHeldBack ==
    /\ last.op = "RunSession" /\ Len(last.gen) = 1 + 4
    /\ gh.pre.WritePtr = (gh.pre.ReadPtr + 4) % UMP_FIFO_SIZE
    /\ Len(gh.sent) >= 2
    /\ Len(gh.sent[Len(gh.sent) - 1]) = 1 + 61

\* C40: the datagram a tick assembles is at most as long as the UMPCommand array of
\* RunSession, and what is copied into a FEC slot at most as long as the slot's
\* Packet array.
C40_WithinBuffers ==
    last.op = "RunSession" =>
        /\ \A i \in 1 .. Len(last.out) :
               FirstCommand(last.out[i].data) = UMP_DATA_COMMAND =>
                   Len(last.out[i].data) <= 4 * UMPCommandLen
        /\ \A s \in FECSlots : Len(H[last.n].FECMemory[s].Packet) <= FECPacketLen

(* ---------------- an Opened endpoint with a nearly full FIFO ----------- *)

MaxFifoSends == 3
MaxFifoTicks == 2
FifoBacklog == 255

RECURSIVE IdleTicks(_, _)
\* k ticks in a row during which nothing arrives
\* (the first half's result is evaluated before the second half is entered)
IdleTicks(h, k) ==
    IF k = 0 THEN h
    ELSE IF k = 1 THEN RunSession(h, NoRx, [junk |-> 0, ovf |-> "intact"]).h
    ELSE LET h1 == IdleTicks(h, k \div 2)
         IN IF h1.TimeOutRemote = h1.TimeOutRemote THEN IdleTicks(h1, k - (k \div 2)) ELSE h1

\* the endpoint with its backlog, and the same endpoint three ticks later, with
\* three full packets in its FEC memory
FifoFilled == Burst(OpenedInitiator, 1, FifoBacklog)

FifoDrained == IdleTicks(FifoFilled, NUM_FEC_ENTRIES - 2)

InitFifo ==
    /\ \E h \in {FifoFilled, FifoDrained} :
         H = [n \in Nodes |-> IF n = "A" THEN h ELSE CNetUMPHandler]
    /\ sock = [n \in Nodes |-> <<>>]
    /\ net = {}
    /\ last = NoLast
    /\ gh = Gh0
    /\ th = Th0

\* the application sends a message, whether there is room or not
FifoSend(n) ==
    /\ ~H[n].SocketLocked
    /\ gh.sends < MaxFifoSends
    /\ \E m \in {Msg1(gh.sends), Msg2(gh.sends), Msg4(gh.sends)} :
         LET r == SendUMPMessage(H[n], m)
         IN /\ H' = [H EXCEPT ![n] = r.h]
            /\ last' = Last(n, "SendUMPMessage", Ctx(r.h), r.ret)
            /\ gh' = [gh EXCEPT !.sends = @ + 1, !.msg = m, !.pre = H[n]]
    /\ UNCHANGED <<sock, net, th>>

\* one tick: it drains the FIFO; the peer may have closed the session
FifoTick(n) ==
    /\ ~H[n].SocketLocked
    /\ gh.now[n] < MaxFifoTicks
    /\ \E rx \in {NoRx, Rx(NodeAddr[Other(n)].ip, NodeAddr[Other(n)].port,
                          SendBYECommand(BYE_USER_TERMINATED, 0, 0).data)},
          env \in Envs(H[n]) :
         LET c == RunSession(H[n], rx, env)
         IN /\ H' = [H EXCEPT ![n] = c.h]
            /\ last' = Last(n, "RunSession", c, 0)
            /\ gh' = [gh EXCEPT !.now[n] = @ + 1]
    /\ UNCHANGED <<sock, net, th>>

NextFifo == \E n \in Nodes : FifoSend(n) \/ FifoTick(n)

SpecFifo == InitFifo /\ [][NextFifo]_vars

\* C8: SendUMPMessage returns true, with WritePtr advanced by the length the
\* message type gives (and the message queued), exactly when the session is Opened
\* and the message fits; otherwise it returns false and leaves WritePtr and the
\* queued words as they were.
C8_SendContract ==
    last.op = "SendUMPMessage" =>
        LET p == gh.pre
            h == H[last.n]
            len == UMPSize[MTof(gh.msg[1]) + 1]
            used == (p.WritePtr - p.ReadPtr + UMP_FIFO_SIZE) % UMP_FIFO_SIZE
            fits == used + len <= UMP_FIFO_SIZE - 1
            q0 == Queued(p.FIFO, p.ReadPtr, p.WritePtr)
            q1 == Queued(h.FIFO, h.ReadPtr, h.WritePtr)
        IN /\ last.ret <=> (p.SessionState = SESSION_OPENED /\ fits)
           /\ last.ret => h.WritePtr = (p.WritePtr + len) % UMP_FIFO_SIZE /\ q1 = q0 \o gh.msg
           /\ ~last.ret => h.WritePtr = p.WritePtr /\ q1 = q0

C8_RefusedWhenFull ==
    /\ last.op = "SendUMPMessage" /\ ~last.ret
    /\ gh.pre.SessionState = SESSION_OPENED
    /\ H[last.n].FIFO # gh.pre.FIFO
    /\ H[last.n].WritePtr = gh.pre.WritePtr

(* ------- SendUMPMessage on one thread, RunSession on another ---------- *)

(* The FIFO and its cursors are plain variables, written by one thread and  *)
(* read by the other with nothing that orders the accesses.  The stores of  *)
(* SendUMPMessage therefore reach the tick thread one by one and in any     *)
(* order, except that two stores to one location keep theirs.               *)

MaxRaceMsgs == 2
MaxRaceTicks == 2

\* the FIFO array as the constructor leaves it: never written, holding whatever
\* was in memory
RawFifo(j) == [i \in 0 .. (UMP_FIFO_SIZE - 1) |-> <<j, j, j, j>>]

InitRace ==
    /\ \E j \in JunkBytes :
         H = [n \in Nodes |-> IF n = "A" THEN [OpenedInitiator EXCEPT !.FIFO = RawFifo(j)]
                              ELSE CNetUMPHandler]
    /\ sock = [n \in Nodes |-> <<>>]
    /\ net = {}
    /\ last = NoLast
    /\ gh = Gh0
    /\ th = Th0

\* WritePtr as the sending thread reads it: its own last store, if still on its way
OwnWritePtr(h, stores) ==
    LET ps == {i \in 1 .. Len(stores) : stores[i].loc = "WritePtr"}
    IN IF ps = {} THEN h.WritePtr
       ELSE stores[CHOOSE i \in ps : \A k \in ps : k <= i].val

\* SendUMPMessage up to the for loop: the session test, MsgSize, TmpWrite
RaceCall(n) ==
    /\ n = "A" /\ th.pc = "idle"
    /\ Len(gh.pushed[n]) < MaxRaceMsgs
    /\ H[n].SessionState = SESSION_OPENED
    /\ \E m \in {Msg1(Len(gh.pushed[n]) + 1), Msg2(Len(gh.pushed[n]) + 1)} :
         th' = [th EXCEPT !.pc = "loop", !.UMPData = m, !.WordCounter = 0,
                          !.TmpWrite = OwnWritePtr(H[n], th.stores)]
    /\ UNCHANGED <<H, sock, net, last, gh>>

\* one turn of the for loop: the store of a word, the cursor, the test against ReadPtr
RaceStoreWord(n) ==
    /\ n = "A" /\ th.pc = "loop"
    /\ LET st == [loc |-> "FIFO", idx |-> th.TmpWrite, val |-> th.UMPData[th.WordCounter + 1]]
           t1 == NextPtr(th.TmpWrite)
           MsgSize == UMPSize[MTof(th.UMPData[1]) + 1]
       IN th' = [th EXCEPT !.stores = Append(@, st),
                           !.TmpWrite = t1,
                           !.WordCounter = @ + 1,
                           !.pc = IF t1 = H[n].ReadPtr THEN "idle"
                                  ELSE IF th.WordCounter + 1 >= MsgSize THEN "publish"
                                  ELSE "loop"]
    /\ UNCHANGED <<H, sock, net, last, gh>>

\* UMP_FIFO_TO_NET.WritePtr = TmpWrite; return true
RacePublish(n) ==
    /\ n = "A" /\ th.pc = "publish"
    /\ th' = [th EXCEPT !.stores = Append(@, [loc |-> "WritePtr", idx |-> 0, val |-> th.TmpWrite]),
                        !.pc = "idle"]
    /\ gh' = [gh EXCEPT !.pushed[n] = Append(@, th.UMPData)]
    /\ UNCHANGED <<H, sock, net, last>>

\* a store of the sending thread becomes visible to the tick thread
RaceVisible(n) ==
    /\ n = "A"
    /\ \E i \in 1 .. Len(th.stores) :
         LET st == th.stores[i]
         IN /\ \A k \in 1 .. (i - 1) :
                   th.stores[k].loc # st.loc \/ th.stores[k].idx # st.idx
            /\ H' = [H EXCEPT ![n] = IF st.loc = "WritePtr" THEN [@ EXCEPT !.WritePtr = st.val]
                                     ELSE [@ EXCEPT !.FIFO = FifoStore(@, st.idx, st.val)]]
            /\ th' = [th EXCEPT !.stores = SubSeq(@, 1, i - 1) \o SubSeq(@, i + 1, Len(@))]
    /\ UNCHANGED <<sock, net, last, gh>>

\* one tick on the tick thread, on the memory as it sees it
RaceTick(n) ==
    /\ n = "A"
    /\ gh.now[n] < MaxRaceTicks
    /\ \E env \in Envs(H[n]) :
         LET c == RunSession(H[n], NoRx, env)
         IN /\ H' = [H EXCEPT ![n] = c.h]
            /\ last' = Last(n, "RunSession", c, 0)
            /\ gh' = [gh EXCEPT !.now[n] = @ + 1,
                                !.drained = @ \o [i \in 1 .. (Len(c.gen) - 1) |-> htonl(c.gen[i + 1])]]
    /\ UNCHANGED <<sock, net, th>>

NextRace ==
    \E n \in Nodes : RaceCall(n) \/ RaceStoreWord(n) \/ RacePublish(n) \/ RaceVisible(n) \/ RaceTick(n)

SpecRace == InitRace /\ [][NextRace]_vars

\* C7: whatever the interleaving of SendUMPMessage and the ticks, the words drained
\* so far are the first k messages pushed, whole, for some k.
C7_FifoAtomicity ==
    \E k \in 0 .. Len(gh.pushed["A"]) : gh.drained = Flatten(SubSeq(gh.pushed["A"], 1, k))

(* ------ a sender and a receiver over a network that loses, ------------ *)
(* ------ duplicates and delays datagrams                     ------------ *)

MaxLossyMsgs == 6
MaxLossyTicks == 6
MaxLossyRecvs == 3

\* the listener after InitiateSession and one tick that receives the INVITATION of A
OpenedListener ==
    RunSession(Start("B", CNetUMPHandler, TRUE).h,
               Rx(AddrA.ip, AddrA.port, InvitationPacket(INVITATION_COMMAND)),
               [junk |-> 0, ovf |-> "intact"]).h

\* the session is open on both sides (error correction is FEC, as constructed)
InitLossy ==
    /\ H = [n \in Nodes |-> IF n = "A" THEN OpenedInitiator ELSE OpenedListener]
    /\ sock = [n \in Nodes |-> <<>>]
    /\ net = {}
    /\ last = NoLast
    /\ gh = Gh0
    /\ th = Th0

\* the sender's application sends its next message
LossySend(n) ==
    /\ n = "A"
    /\ Len(gh.pushed[n]) < MaxLossyMsgs
    /\ LET m == Msg1(Len(gh.pushed[n]) + 1)
           r == SendUMPMessage(H[n], m)
       IN /\ r.ret
          /\ H' = [H EXCEPT ![n] = r.h]
          /\ last' = Last(n, "SendUMPMessage", Ctx(r.h), r.ret)
          /\ gh' = [gh EXCEPT !.pushed[n] = Append(@, m)]
    /\ UNCHANGED <<sock, net, th>>

\* a tick of the sender: what it emits is in the network from now on
LossyTick(n) ==
    /\ n = "A"
    /\ gh.now[n] < MaxLossyTicks
    /\ \E env \in Envs(H[n]) :
         LET c == RunSession(H[n], NoRx, env)
         IN /\ H' = [H EXCEPT ![n] = c.h]
            /\ last' = Last(n, "RunSession", c, 0)
            /\ net' = net \cup {c.out[i].data : i \in 1 .. Len(c.out)}
            /\ gh' = [gh EXCEPT !.now[n] = @ + 1]
    /\ UNCHANGED <<sock, th>>

\* a tick of the receiver: the network hands it nothing, or any datagram it holds
\* (a datagram never handed over is lost, one handed over late is delayed, one
\* handed over again is duplicated)
LossyRecv(n) ==
    /\ n = "B"
    /\ gh.now[n] < MaxLossyRecvs
    /\ \E rx \in {NoRx} \cup {Rx(AddrA.ip, AddrA.port, d) : d \in net}, env \in Envs(H[n]) :
         LET c == RunSession(H[n], rx, env)
         IN /\ H' = [H EXCEPT ![n] = c.h]
            /\ last' = Last(n, "RunSession", c, 0)
            /\ gh' = [gh EXCEPT !.now[n] = @ + 1, !.delivered[n] = @ \o c.cb]
    /\ UNCHANGED <<sock, net, th>>

NextLossy == \E n \in Nodes : LossySend(n) \/ LossyTick(n) \/ LossyRecv(n)

SpecLossy == InitLossy /\ [][NextLossy]_vars

RECURSIVE IsSubsequence(_, _)
\* d is p with some elements left out
IsSubsequence(d, p) ==
    IF d = <<>> THEN TRUE
    ELSE IF p = <<>> THEN FALSE
    ELSE IF Head(d) = Head(p) THEN IsSubsequence(Tail(d), Tail(p))
    ELSE IsSubsequence(d, Tail(p))

\* C9: within one session, whatever the network loses, duplicates or delays, the
\* messages handed to the receiver's callback are the messages the sender pushed, in
\* that order, with some of them missing.
C9_DeliveredInPushOrder == IsSubsequence(gh.delivered["B"], gh.pushed["A"])

\* C39: within one session, whatever the network loses, duplicates or delays, no
\* message reaches the receiver's callback twice.
C39_AtMostOnce ==
    \A i \in 1 .. Len(gh.delivered["B"]), j \in 1 .. Len(gh.delivered["B"]) :
        i # j => gh.delivered["B"][i] # gh.delivered["B"][j]

\* C30: every datagram of UMP data handed to sendto is at most 1024 bytes long, the
\* size of the reception buffer of the endpoint that reads it.
C30_DatagramFits ==
    (last.op = "RunSession" /\ DataOut(last.out) # <<>>) =>
        Len(DataOut(last.out)[1].data) <= ReceptionBufferSize

(* ------ a sender and a receiver over a network that loses datagrams ---- *)

MaxFecMsgs == 6
MaxFecRecvs == 3

InitFec == InitLossy

\* the sender's application sends its next message
FecSend(n) ==
    /\ n = "A"
    /\ Len(gh.pushed[n]) < MaxFecMsgs
    /\ LET m == Msg1(Len(gh.pushed[n]) + 1)
           r == SendUMPMessage(H[n], m)
       IN /\ r.ret
          /\ H' = [H EXCEPT ![n] = r.h]
          /\ last' = Last(n, "SendUMPMessage", Ctx(r.h), r.ret)
          /\ gh' = [gh EXCEPT !.pushed[n] = Append(@, m)]
    /\ UNCHANGED <<sock, net, th>>

\* a tick of the sender that finds something in its FIFO: the datagram is on its way
\* to the receiver's socket
FecTick(n) ==
    /\ n = "A"
    /\ H[n].WritePtr # H[n].ReadPtr
    /\ \E env \in Envs(H[n]) :
         LET c == RunSession(H[n], NoRx, env)
         IN /\ H' = [H EXCEPT ![n] = c.h]
            /\ last' = Last(n, "RunSession", c, 0)
            /\ sock' = DeliverAll(sock, H, n, c.out)
            /\ gh' = [gh EXCEPT !.now[n] = @ + 1,
                                !.sent = IF c.gen # <<>> THEN Append(@, c.gen) ELSE @]
    /\ UNCHANGED <<net, th>>

\* a tick of the receiver that reads a datagram: the network lost the k - 1 datagrams
\* sent before it
FecRecv(n) ==
    /\ n = "B"
    /\ gh.now[n] < MaxFecRecvs
    /\ \E k \in 1 .. Len(sock[n]), env \in Envs(H[n]) :
         LET c == RunSession(H[n], sock[n][k], env)
         IN /\ H' = [H EXCEPT ![n] = c.h]
            /\ last' = Last(n, "RunSession", c, 0)
            /\ sock' = [sock EXCEPT ![n] = SubSeq(@, k + 1, Len(@))]
            /\ gh' = [gh EXCEPT !.now[n] = @ + 1, !.delivered[n] = @ \o c.cb,
                                !.got = IF c.ump # <<>> THEN Append(@, c.ump[Len(c.ump)].pn)
                                        ELSE @]
    /\ UNCHANGED <<net, th>>

NextFec == \E n \in Nodes : FecSend(n) \/ FecTick(n) \/ FecRecv(n)

SpecFec == InitFec /\ [][NextFec]_vars

\* the datagrams the receiver read so far, each named by the number of its newest
\* packet, came in the order they were sent, and before each of them at most
\* NUM_FEC_ENTRIES - 1 datagrams in a row were lost
FewLost ==
    \A i \in 1 .. Len(gh.got) :
        LET before == IF i = 1 THEN -1 ELSE gh.got[i - 1]
        IN gh.got[i] > before /\ gh.got[i] - before <= NUM_FEC_ENTRIES

\* the messages of the first k packets the sender built
Carried(k) ==
    Flatten([i \in 1 .. k |-> [j \in 1 .. (Len(gh.sent[i]) - 1) |-> <<htonl(gh.sent[i][j + 1])>>]])

\* C33: with FEC, as long as at most 4 datagrams in a row are lost before one that
\* arrives, the callback has received the messages of every packet up to the newest
\* one that arrived, lost ones included, each once and in push order.
C33_FECRecovers ==
    (gh.got # <<>> /\ FewLost /\ H["A"].ErrorCorrectionMode = ERROR_CORRECTION_FEC) =>
        /\ gh.delivered["B"] = Carried(gh.got[Len(gh.got)] + 1)
        /\ IsSubsequence(gh.delivered["B"], gh.pushed["A"])

\* the first datagram that arrived was the fifth, and a later one arrived after it
C33_FourLost ==
    /\ last.op = "RunSession" /\ last.n = "B"
    /\ Len(gh.got) >= 2 /\ gh.got[1] = NUM_FEC_ENTRIES - 1 /\ FewLost
    /\ Len(last.cb) >= 1
    /\ Len(gh.delivered["B"]) >= NUM_FEC_ENTRIES + 1

(* ------------- an Opened endpoint reading damaged datagrams ------------ *)

MaxWireTicks == 3

\* a datagram with one UMP data command whose header declares plen payload words and
\* which carries the words given
RawDatagram(plen, pn, words) ==
    StoreAll(<<htonl(UMP_SIGNATURE), htonl(PacketHeader(plen, pn))>>
             \o [i \in 1 .. Len(words) |-> htonl(words[i])])

\* datagrams that end before the payload their header declares, or whose last
\* message is longer than what is left of the declared payload
TruncatedDatagrams(pn) ==
    {RawDatagram(2, pn, Msg1(pn)), RawDatagram(1, pn, <<>>),
     RawDatagram(1, pn, <<Msg4(pn)[1]>>), RawDatagram(3, pn, Msg1(pn) \o <<Msg2(pn)[1]>>)}

\* datagrams as a sender builds them
WholeDatagrams(pn) == {RawDatagram(1, pn, Msg1(pn)), RawDatagram(4, pn, Msg4(pn))}

\* the 32-bit words a datagram holds
WordsOf(data) ==
    {<<data[4 * k + 1], data[4 * k + 2], data[4 * k + 3], data[4 * k + 4]>> :
        k \in 0 .. ((Len(data) \div 4) - 1)}

InitWire ==
    /\ H = [n \in Nodes |-> IF n = "B" THEN OpenedListener ELSE CNetUMPHandler]
    /\ sock = [n \in Nodes |-> <<>>]
    /\ net = {}
    /\ last = NoLast
    /\ gh = Gh0
    /\ th = Th0

\* a tick of the endpoint: its peer's datagram arrives whole or damaged; the bytes
\* of ReceptionBuffer beyond the received ones are whatever the stack held
WireTick(n) ==
    /\ ~H[n].SocketLocked
    /\ gh.now[n] < MaxWireTicks
    /\ \E d \in TruncatedDatagrams(gh.now[n]) \cup WholeDatagrams(gh.now[n]), j \in JunkBytes :
         LET rx == Rx(AddrA.ip, AddrA.port, d)
             c == RunSession(H[n], rx, [junk |-> j, ovf |-> "intact"])
         IN /\ H' = [H EXCEPT ![n] = c.h]
            /\ last' = Last(n, "RunSession", c, 0)
            /\ gh' = [gh EXCEPT !.now[n] = @ + 1, !.pre = H[n], !.rx = rx,
                                !.delivered[n] = @ \o c.cb]
    /\ UNCHANGED <<sock, net, th>>

NextWire == \E n \in Nodes : WireTick(n)

SpecWire == InitWire /\ [][NextWire]_vars

\* C32: a tick that reads a truncated datagram hands the callback no message that
\* holds a word from beyond the received data.
C32_TruncatedDropped ==
    (last.op = "RunSession" /\ gh.rx.data \in TruncatedDatagrams(gh.now[last.n] - 1)) =>
        \A i \in 1 .. Len(last.cb) : \A k \in 1 .. Len(last.cb[i]) :
            last.cb[i][k] \in WordsOf(gh.rx.data)

(* ------------- an Opened endpoint whose peer has gone quiet ----------- *)

IdleMargin == 3
MaxIdleTicks == 5

\* what the peer of an Opened endpoint n may send it
IdleArrivals(n) ==
    {NoRx} \cup {Rx(H[n].SessionPartnerIP, H[n].SessionPartnerPort, d) :
                    d \in {Datagram(DataPacket(0, Msg1(0))),
                           SendPINGCommand(H[n], U32(1)).data}}

\* one of the two endpoints is Opened and has heard nothing from its peer for all
\* but IdleMargin ticks of the timeout
InitIdle ==
    /\ \E a \in Nodes :
         /\ H = [n \in Nodes |->
                   IF n # a THEN CNetUMPHandler
                   ELSE IdleTicks(IF n = "A" THEN OpenedInitiator ELSE OpenedListener,
                                  TIMEOUT_RESET - IdleMargin)]
         /\ gh = [Gh0 EXCEPT !.quiet[a] = TIMEOUT_RESET - IdleMargin]
    /\ sock = [n \in Nodes |-> <<>>]
    /\ net = {}
    /\ last = NoLast
    /\ th = Th0

\* one tick; gh.quiet[n] counts the ticks in a row, with the session Opened, in
\* which nothing arrived
IdleTick(n) ==
    /\ ~H[n].SocketLocked
    /\ gh.now[n] < MaxIdleTicks
    /\ \E rx \in IdleArrivals(n), env \in Envs(H[n]) :
         LET c == RunSession(H[n], rx, env)
         IN /\ H' = [H EXCEPT ![n] = c.h]
            /\ last' = Last(n, "RunSession", c, 0)
            /\ gh' = [gh EXCEPT !.now[n] = @ + 1,
                                !.pre = H[n],
                                !.delivered[n] = @ \o c.cb,
                                !.quiet[n] = IF rx.has \/ H[n].SessionState # SESSION_OPENED
                                             THEN 0 ELSE @ + 1]
    /\ UNCHANGED <<sock, net, th>>

\* the application reads the connection-lost flag
IdleRead(n) ==
    /\ ~H[n].SocketLocked
    /\ LET r == ReadAndResetConnectionLost(H[n])
       IN /\ H' = [H EXCEPT ![n] = r.h]
          /\ last' = Last(n, "ReadAndResetConnectionLost", Ctx(r.h), r.ret)
    /\ UNCHANGED <<sock, net, gh, th>>

NextIdle == \E n \in Nodes : IdleTick(n) \/ IdleRead(n)

SpecIdle == InitIdle /\ [][NextIdle]_vars

\* the last operation was a tick in which the remote timeout fired
TimeoutFired ==
    /\ last.op = "RunSession"
    /\ Len(last.out) >= 1
    /\ last.out[1].data = SendBYECommand(BYE_TIMEOUT, 0, 0).data

MaxSessTicks == 2
MaxSessStarts == 2
MaxSessCalls == 2

\* the id carried by the PING and PING_REPLY commands the network is seen to carry
SessPingId == <<1, 2, 3, 4>>

\* datagrams of one command each
SessDatagrams ==
    {InvitationPacket(INVITATION_COMMAND), InvitationPacket(INVITATION_ACCEPTED_COMMAND),
     SendBYECommand(BYE_USER_TERMINATED, 0, 0).data,
     SendPINGCommand(CNetUMPHandler, SessPingId).data,
     SendPINGReplyCommand(CNetUMPHandler, SessPingId).data,
     Datagram(DataPacket(0, Msg1(0)))}

SessArrivals(n) == {NoRx} \cup {Rx(a.ip, a.port, d) : a \in WireSources(n), d \in SessDatagrams}

\* the datagram rx is read by this tick of h
Heard(h, rx) == rx.has /\ ~h.SocketLocked /\ h.UMPSocket # INVALID_SOCKET

\* rx comes from (SessionPartnerIP, SessionPartnerPort) of h
FromPeer(h, rx) == rx.ip = h.SessionPartnerIP /\ rx.port = h.SessionPartnerPort

\* the datagrams of outs sent to (ip, port) with this content
SentTo(outs, ip, port, data) ==
    {i \in 1 .. Len(outs) : outs[i].ip = ip /\ outs[i].port = port /\ outs[i].data = data}

\* the datagrams of outs whose first command is code
Commands(outs, code) == {i \in 1 .. Len(outs) : FirstCommand(outs[i].data) = code}

\* outs without its i-th datagram
Without(outs, i) == SubSeq(outs, 1, i - 1) \o SubSeq(outs, i + 1, Len(outs))

\* the remote timeout fires in the next tick of h
TimeoutDue(h) == h.SessionState = SESSION_OPENED /\ h.TimeOutRemote <= 1

InitSess == Constructed

\* the application starts an endpoint, or starts it again; CreateUDPSocket fails
\* as long as the platform has failures in store (gh.fails)
SessStart(n) ==
    /\ \A m \in Nodes \ {n} : H[m].SocketLocked
    /\ gh.starts < MaxSessStarts
    /\ \E SocketOK \in {TRUE} \cup {FALSE : k \in 1 .. gh.fails} :
         LET r == Start(n, H[n], SocketOK)
         IN /\ H' = [H EXCEPT ![n] = r.h]
            /\ last' = Last(n, "InitiateSession", Ctx(r.h), r.ret)
            /\ gh' = [gh EXCEPT !.starts = @ + 1, !.pre = H[n],
                                !.fails = IF SocketOK THEN @ ELSE @ - 1,
                                !.reads[n] = -1, !.closed[n] = FALSE,
                                !.shut[n] = FALSE]
    /\ UNCHANGED <<sock, net, th>>

\* one tick of n
SessTick(n) ==
    /\ ~H[n].SocketLocked
    /\ gh.now[n] < MaxSessTicks
    /\ \E rx \in SessArrivals(n), env \in Envs(H[n]) :
         LET c == RunSession(H[n], rx, env)
             peerBye == /\ Heard(H[n], rx) /\ FromPeer(H[n], rx)
                        /\ FirstCommand(rx.data) = BYE_COMMAND
         IN /\ H' = [H EXCEPT ![n] = c.h]
            /\ last' = Last(n, "RunSession", c, 0)
            /\ gh' = [gh EXCEPT !.now[n] = @ + 1,
                                !.pre = H[n],
                                !.rx = rx,
                                !.delivered[n] = @ \o c.cb,
                                !.opener[n] = IF Opens(c) THEN [ip |-> rx.ip, port |-> rx.port]
                                              ELSE @,
                                !.reads[n] = IF peerBye THEN 0
                                             ELSE IF TimeoutDue(H[n]) THEN -1 ELSE @,
                                !.epoch[n] = IF Opens(c) THEN @ + 1 ELSE @,
                                !.asked[n] = IF /\ peerBye /\ ~TimeoutDue(H[n])
                                                /\ H[n].SessionState = SESSION_OPENED
                                             THEN 0 ELSE @]
    /\ UNCHANGED <<sock, net, th>>

\* the application sends a one-word message
SessSend(n) ==
    /\ ~H[n].SocketLocked
    /\ gh.pushed[n] = <<>>
    /\ LET r == SendUMPMessage(H[n], Msg1(1))
       IN /\ r.ret
          /\ H' = [H EXCEPT ![n] = r.h]
          /\ last' = Last(n, "SendUMPMessage", Ctx(r.h), r.ret)
          /\ gh' = [gh EXCEPT !.pushed[n] = Append(@, Msg1(1)), !.pre = H[n],
                              !.msgEpoch[n] = IF H[n].SessionState = SESSION_OPENED
                                              THEN gh.epoch[n] ELSE -1]
    /\ UNCHANGED <<sock, net, th>>

\* the application closes the session
SessClose(n) ==
    /\ ~H[n].SocketLocked
    /\ gh.calls < MaxSessCalls
    /\ LET c == CloseSession(H[n])
       IN /\ H' = [H EXCEPT ![n] = c.h]
          /\ last' = Last(n, "CloseSession", c, 0)
          /\ gh' = [gh EXCEPT !.calls = @ + 1, !.pre = H[n],
                              !.closed[n] = @ \/ H[n].SessionState = SESSION_OPENED,
                              !.shut[n] = TRUE]
    /\ UNCHANGED <<sock, net, th>>

\* the application reads the connection-lost flag
SessRead(n) ==
    /\ ~H[n].SocketLocked
    /\ gh.calls < MaxSessCalls
    /\ LET r == ReadAndResetConnectionLost(H[n])
       IN /\ H' = [H EXCEPT ![n] = r.h]
          /\ last' = Last(n, "ReadAndResetConnectionLost", Ctx(r.h), r.ret)
          /\ gh' = [gh EXCEPT !.calls = @ + 1, !.pre = H[n],
                              !.reads[n] = IF @ >= 0 THEN @ + 1 ELSE @]
    /\ UNCHANGED <<sock, net, th>>

NextSess ==
    \E n \in Nodes : \/ SessStart(n) \/ SessTick(n) \/ SessSend(n)
                     \/ SessClose(n) \/ SessRead(n)

SpecSess == InitSess /\ [][NextSess]_vars

(* ------- the same endpoint on a platform whose socket creation may fail ------- *)

MaxLifeFails == 1
MaxLifeAsks == 2

InitLife ==
    /\ H = [n \in Nodes |-> CNetUMPHandler]
    /\ sock = [n \in Nodes |-> <<>>]
    /\ net = {}
    /\ last = NoLast
    /\ gh = [Gh0 EXCEPT !.fails = MaxLifeFails]
    /\ th = Th0

\* the application, after a BYE of the peer, asks whether the peer closed the session
SessAsk(n) ==
    /\ ~H[n].SocketLocked
    /\ gh.asked[n] \in 0 .. MaxLifeAsks - 1
    /\ LET r == RemotePeerClosedSession(H[n])
       IN /\ H' = [H EXCEPT ![n] = r.h]
          /\ last' = Last(n, "RemotePeerClosedSession", Ctx(r.h), r.ret)
          /\ gh' = [gh EXCEPT !.pre = H[n], !.asked[n] = @ + 1]
    /\ UNCHANGED <<sock, net, th>>

NextLife == NextSess \/ \E n \in Nodes : SessAsk(n)

SpecLife == InitLife /\ [][NextLife]_vars

\* the last operation was a tick of an endpoint that read a datagram whose command is code
TickHeard(code) ==
    /\ last.op = "RunSession"
    /\ Heard(gh.pre, gh.rx)
    /\ FirstCommand(gh.rx.data) = code

\* the same tick with nothing on the socket
QuietTick == RunSession(gh.pre, NoRx, [junk |-> 0, ovf |-> "intact"])

\* C11: while the session is Opened, a tick that reads a valid command from the
\* current peer and leaves the session Opened ends with TimeOutRemote at 30000.
C11_PeerTrafficResetsTimeout ==
    (/\ last.op = "RunSession" /\ Heard(gh.pre, gh.rx) /\ FromPeer(gh.pre, gh.rx)
     /\ gh.pre.SessionState = SESSION_OPENED /\ ~TimeoutDue(gh.pre)
     /\ H[last.n].SessionState = SESSION_OPENED)
        => H[last.n].TimeOutRemote = TIMEOUT_RESET

C13_StrangerBye ==
    (TickHeard(BYE_COMMAND) /\ ~FromPeer(gh.pre, gh.rx)) =>
        LET q == QuietTick
            to == SentTo(last.out, gh.rx.ip, gh.rx.port, SendBYEReplyCommand(0, 0).data)
        IN /\ Cardinality(to) = 1
           /\ \A i \in to : Without(last.out, i) = q.out
           /\ H[last.n] = q.h

C13_StrangerAnswered ==
    /\ TickHeard(BYE_COMMAND)
    /\ gh.pre.SessionState = SESSION_OPENED /\ H[last.n].SessionState = SESSION_OPENED
    /\ gh.rx.ip = gh.pre.SessionPartnerIP /\ gh.rx.port # gh.pre.SessionPartnerPort
    /\ SentTo(last.out, gh.rx.ip, gh.rx.port, SendBYEReplyCommand(0, 0).data) # {}
    /\ ~H[last.n].ConnectionLost

\* C14: a tick of an initiator that reads an INVITATION sends BYE(TOO_MANY_SESSIONS)
\* to the sender of the INVITATION; the session state is the one a tick with nothing
\* on the socket would have left, and the peer is the one before the tick.
C14_InitiatorRefusesInvitation ==
    (TickHeard(INVITATION_COMMAND) /\ gh.pre.IsInitiatorNode) =>
        /\ SentTo(last.out, gh.rx.ip, gh.rx.port,
                  SendBYECommand(BYE_TOO_MANY_SESSIONS, 0, 0).data) # {}
        /\ H[last.n].SessionState = QuietTick.h.SessionState
        /\ H[last.n].SessionPartnerIP = gh.pre.SessionPartnerIP
        /\ H[last.n].SessionPartnerPort = gh.pre.SessionPartnerPort

C14_OpenedInitiatorInvited ==
    /\ TickHeard(INVITATION_COMMAND) /\ gh.pre.IsInitiatorNode
    /\ gh.pre.SessionState = SESSION_OPENED /\ H[last.n].SessionState = SESSION_OPENED
    /\ ~FromPeer(gh.pre, gh.rx)
    /\ SentTo(last.out, gh.rx.ip, gh.rx.port,
              SendBYECommand(BYE_TOO_MANY_SESSIONS, 0, 0).data) # {}

\* C15: a tick of a listener in WaitInvite that reads an INVITATION ends in Opened
\* with the sender as peer, has sent INVITATION_ACCEPTED to the sender, and ends with
\* no FEC slot filled, the dedup window fresh and TimeOutRemote at 30000.
C15_ListenerAccepts ==
    (/\ TickHeard(INVITATION_COMMAND)
     /\ ~gh.pre.IsInitiatorNode /\ gh.pre.SessionState = SESSION_WAIT_INVITE) =>
        LET h == H[last.n]
        IN /\ h.SessionState = SESSION_OPENED
           /\ h.SessionPartnerIP = gh.rx.ip /\ h.SessionPartnerPort = gh.rx.port
           /\ SentTo(last.out, gh.rx.ip, gh.rx.port,
                     InvitationPacket(INVITATION_ACCEPTED_COMMAND)) # {}
           /\ \A s \in FECSlots : /\ ~h.FECMemory[s].Filled
                                  /\ h.ReceivedSequenceCounters[s] = SeqSentinel
           /\ h.TimeOutRemote = TIMEOUT_RESET

\* C16: whenever the state is Opened, (SessionPartnerIP, SessionPartnerPort) is the
\* UDP source of the datagram that opened the session.
C16_PeerIsOpener ==
    \A n \in Nodes :
        H[n].SessionState = SESSION_OPENED =>
            /\ H[n].SessionPartnerIP = gh.opener[n].ip
            /\ H[n].SessionPartnerPort = gh.opener[n].port

C20_CloseSilences ==
    /\ (/\ last.op = "CloseSession" /\ gh.pre.SessionState = SESSION_OPENED
        /\ gh.pre.UMPSocket # INVALID_SOCKET) =>
         /\ Len(last.out) = 1
         /\ SentTo(last.out, gh.pre.SessionPartnerIP, gh.pre.SessionPartnerPort,
                   SendBYECommand(BYE_USER_TERMINATED, 0, 0).data) = {1}
         /\ H[last.n].SessionState = SESSION_CLOSED
    /\ (last.op = "RunSession" /\ gh.closed[last.n]) =>
         /\ last.out = <<>>
         /\ H[last.n] = QuietTick.h

\* C21: CloseSession leaves the session state Closed whatever the state was when it
\* was called, and an initiator sends no INVITATION from then until it is started
\* again.
C21_CloseTerminates ==
    /\ last.op = "CloseSession" => H[last.n].SessionState = SESSION_CLOSED
    /\ (last.op = "RunSession" /\ gh.shut[last.n]) =>
         Commands(last.out, INVITATION_COMMAND) = {}

\* C22: an InitiateSession whose CreateUDPSocket fails returns -1 and leaves the
\* session state Closed, whatever the endpoint did before; with the socket invalid a
\* tick sends nothing.
C22_FailedStartCloses ==
    /\ (last.op = "InitiateSession" /\ last.ret = -1) =>
         H[last.n].SessionState = SESSION_CLOSED
    /\ (last.op = "RunSession" /\ gh.pre.UMPSocket = INVALID_SOCKET) => last.out = <<>>

\* C23: after a tick in which a BYE of the peer ended an Opened session, the first
\* RemotePeerClosedSession returns true and every later one false.
C23_PeerClosedOnce ==
    /\ (last.op = "RemotePeerClosedSession" /\ gh.asked[last.n] = 1) => last.ret = TRUE
    /\ (last.op = "RemotePeerClosedSession" /\ gh.asked[last.n] > 1) => last.ret = FALSE

\* C29: a UMP message that SendUMPMessage accepted while a session was Opened is
\* sent in that session or not at all: a tick sends it only if the endpoint did not
\* enter Opened again since the message was accepted.
C29_NoStaleMessage ==
    (/\ last.op = "RunSession" /\ DataOut(last.out) # <<>>
     /\ gh.msgEpoch[last.n] >= 0) =>
        gh.msgEpoch[last.n] = gh.epoch[last.n]

\* C34: a tick sets ConnectionLost only if it began with the session Opened; a BYE
\* read in Invite, WaitInvite or Closed leaves the latch as it was.
C34_LostOnlyWhenOpened ==
    (last.op = "RunSession" /\ H[last.n].ConnectionLost /\ ~gh.pre.ConnectionLost) =>
        gh.pre.SessionState = SESSION_OPENED

\* C35: an endpoint that CloseSession left Closed, and that was not started since,
\* is still Closed after a tick, whatever the tick reads, and the tick sends neither
\* an INVITATION nor UMP data.
C35_ClosedStays ==
    (last.op = "RunSession" /\ gh.shut[last.n] /\ gh.pre.SessionState = SESSION_CLOSED) =>
        /\ H[last.n].SessionState = SESSION_CLOSED
        /\ Commands(last.out, INVITATION_COMMAND) = {}
        /\ Commands(last.out, UMP_DATA_COMMAND) = {}

\* C38: a tick that reads a PING sends a PING_REPLY to the address and port the
\* PING came from.
C38_ReplyToSender ==
    TickHeard(PING_COMMAND) =>
        \E i \in Commands(last.out, PING_REPLY_COMMAND) :
            last.out[i].ip = gh.rx.ip /\ last.out[i].port = gh.rx.port

(* ------------- the PING timer and the invitation timer at work --------- *)

TimerMargin == 3
MaxTimerTicks == 4

\* the PINGDelayCounter values between two PINGs
PingWindow == PingDelayLimit + 1

Older(a) == IF a >= 0 THEN a + 1 ELSE a

\* the id field of a PING or PING_REPLY datagram
PingIdOf(data) == htonl(Load(SubSeq(data, 9, 12)))

\* the timers as seen after a tick that took the handler p to the result c
TimerGhost(g, p, c) ==
    LET pings == Commands(c.out, PING_COMMAND)
        stays == /\ p.SessionState = SESSION_OPENED /\ c.h.SessionState = SESSION_OPENED
                 /\ DataOut(c.out) = <<>>
        restarted == \E i \in 1 .. Len(c.path) : c.path[i] = SESSION_INVITE
        waiting == g.since >= 0 /\ ~g.hit /\ c.h.SessionState = SESSION_INVITE
        invs == Commands(c.out, INVITATION_COMMAND)
    IN [run |-> IF stays THEN g.run + 1 ELSE 0,
        age1 |-> IF ~stays THEN -1 ELSE IF pings # {} THEN 0 ELSE Older(g.age1),
        age2 |-> IF ~stays THEN -1 ELSE IF pings # {} THEN Older(g.age1) ELSE Older(g.age2),
        id |-> IF pings # {} THEN PingIdOf(c.out[CHOOSE i \in pings : TRUE].data) ELSE g.id,
        prev |-> IF pings # {} THEN g.id ELSE g.prev,
        since |-> IF restarted THEN 0 ELSE IF waiting THEN g.since + 1 ELSE -1,
        hit |-> ~restarted /\ waiting /\ Commands(c.out, INVITATION_COMMAND) # {},
        ip |-> IF restarted THEN c.h.SessionPartnerIP ELSE g.ip,
        port |-> IF restarted THEN c.h.SessionPartnerPort ELSE g.port,
        inv |-> IF c.h.SessionState # SESSION_INVITE THEN -1
                ELSE IF restarted \/ invs # {} THEN 0
                ELSE IF g.inv >= 0 THEN g.inv + 1 ELSE -1,
        first |-> g.first /\ invs = {} /\ ~restarted /\ c.h.SessionState = SESSION_INVITE,
        gap |-> IF invs # {} /\ g.inv >= 0 /\ ~restarted THEN g.inv + 1 ELSE -1,
        wasFirst |-> g.first]

\* the timers as seen after the application called RestartSessionInitiator on p
Restarted(g, p) ==
    IF ~p.IsInitiatorNode THEN g
    ELSE [g EXCEPT !.since = 0, !.hit = FALSE,
                   !.ip = p.SessionPartnerIP, !.port = p.SessionPartnerPort,
                   !.inv = 0, !.first = FALSE, !.gap = -1]

RECURSIVE Advance(_, _)
\* k ticks in a row during which nothing arrives, s.h the handler and s.g the timers
\* (the first half's result is evaluated before the second half is entered)
Advance(s, k) ==
    IF k = 0 THEN s
    ELSE IF k = 1
         THEN LET c == RunSession(s.h, NoRx, [junk |-> 0, ovf |-> "intact"])
              IN [h |-> c.h, g |-> TimerGhost(s.g, s.h, c)]
    ELSE LET s1 == Advance(s, k \div 2)
         IN IF s1.h.EventTime = s1.h.EventTime /\ s1.g.run = s1.g.run
            THEN Advance(s1, k - (k \div 2)) ELSE s1

\* the tick in which an Opened initiator reads its peer's BYE
PeerByeTick ==
    RunSession(OpenedInitiator,
               Rx(AddrB.ip, AddrB.port, SendBYECommand(BYE_USER_TERMINATED, 0, 0).data),
               [junk |-> 0, ovf |-> "intact"])

\* an Opened endpoint shortly before its first PING, before its second PING, and
\* before the INVITATION that follows its timeout; an initiator shortly before the
\* INVITATION that follows a restart by the application and a BYE of its peer; an
\* initiator just started, and shortly before its second and its third INVITATION
TimerStarts ==
    {[n |-> "A", h |-> OpenedInitiator, g |-> Tm0, k |-> PingWindow - TimerMargin],
     [n |-> "B", h |-> OpenedListener, g |-> Tm0, k |-> 2 * PingWindow - TimerMargin],
     [n |-> "A", h |-> OpenedInitiator, g |-> Tm0,
      k |-> TIMEOUT_RESET + InviteRetryTime - TimerMargin],
     [n |-> "A", h |-> RestartSessionInitiator(OpenedInitiator),
      g |-> Restarted(Tm0, OpenedInitiator), k |-> InviteRetryTime - TimerMargin],
     [n |-> "A", h |-> PeerByeTick.h, g |-> TimerGhost(Tm0, OpenedInitiator, PeerByeTick),
      k |-> InviteRetryTime - TimerMargin]}
    \cup {[n |-> "A", h |-> Start("A", CNetUMPHandler, TRUE).h,
            g |-> [Tm0 EXCEPT !.inv = 0, !.first = TRUE], k |-> k] :
             k \in {0, 1 + InviteRetryTime - TimerMargin, 1 + 2 * InviteRetryTime - TimerMargin}}

InitTimer ==
    /\ \E t \in TimerStarts :
         \E s \in {Advance([h |-> t.h, g |-> t.g], t.k)} :
            /\ H = [n \in Nodes |-> IF n = t.n THEN s.h ELSE CNetUMPHandler]
            /\ gh = [Gh0 EXCEPT !.tm = s.g]
    /\ sock = [n \in Nodes |-> <<>>]
    /\ net = {}
    /\ last = NoLast
    /\ th = Th0

\* what the peer of n may send it: nothing, or a PING_REPLY for the last PING, a BYE,
\* an INVITATION_ACCEPTED
TimerArrivals(n) ==
    {NoRx} \cup {Rx(H[n].SessionPartnerIP, H[n].SessionPartnerPort, d) :
                    d \in {SendPINGReplyCommand(H[n], U32(H[n].PINGIdCounter)).data,
                           SendBYECommand(BYE_USER_TERMINATED, 0, 0).data,
                           InvitationPacket(INVITATION_ACCEPTED_COMMAND)}}

TimerTick(n) ==
    /\ ~H[n].SocketLocked
    /\ gh.now[n] < MaxTimerTicks
    /\ \E rx \in TimerArrivals(n), env \in Envs(H[n]) :
         LET c == RunSession(H[n], rx, env)
         IN /\ H' = [H EXCEPT ![n] = c.h]
            /\ last' = Last(n, "RunSession", c, 0)
            /\ gh' = [gh EXCEPT !.now[n] = @ + 1, !.pre = H[n], !.rx = rx,
                                !.tm = TimerGhost(@, H[n], c)]
    /\ UNCHANGED <<sock, net, th>>

\* the application sends a one-word message
TimerSend(n) ==
    /\ ~H[n].SocketLocked
    /\ gh.pushed[n] = <<>>
    /\ LET r == SendUMPMessage(H[n], Msg1(1))
       IN /\ r.ret
          /\ H' = [H EXCEPT ![n] = r.h]
          /\ last' = Last(n, "SendUMPMessage", Ctx(r.h), r.ret)
          /\ gh' = [gh EXCEPT !.pushed[n] = Append(@, Msg1(1)), !.pre = H[n]]
    /\ UNCHANGED <<sock, net, th>>

\* the application restarts the session
TimerRestart(n) ==
    /\ ~H[n].SocketLocked
    /\ gh.calls < 1
    /\ LET h == RestartSessionInitiator(H[n])
       IN /\ H' = [H EXCEPT ![n] = h]
          /\ last' = Last(n, "RestartSessionInitiator", Ctx(h), 0)
          /\ gh' = [gh EXCEPT !.calls = @ + 1, !.pre = H[n], !.tm = Restarted(@, H[n])]
    /\ UNCHANGED <<sock, net, th>>

NextTimer == \E n \in Nodes : TimerTick(n) \/ TimerSend(n) \/ TimerRestart(n)

SpecTimer == InitTimer /\ [][NextTimer]_vars

\* how many of the last two PINGs fall into the last PingWindow ticks
PingsInWindow ==
    (IF gh.tm.age1 >= 0 /\ gh.tm.age1 < PingWindow THEN 1 ELSE 0)
    + (IF gh.tm.age2 >= 0 /\ gh.tm.age2 < PingWindow THEN 1 ELSE 0)

\* C17: over 10001 ticks in a row spent in Opened without outbound UMP data exactly
\* one PING is sent; each PING carries the id of the PING before it plus one; a tick
\* of an Opened endpoint that reads the peer's PING_REPLY for the last PING ends with
\* TimeOutRemote at 30000.
C17_PingCadence ==
    /\ gh.tm.run >= PingWindow => PingsInWindow = 1
    /\ (last.op = "RunSession" /\ Commands(last.out, PING_COMMAND) # {} /\ gh.tm.prev # <<>>)
         => gh.tm.id = Add32(gh.tm.prev, U32(1))
    /\ (/\ TickHeard(PING_REPLY_COMMAND) /\ FromPeer(gh.pre, gh.rx)
        /\ gh.tm.id # <<>> /\ PingIdOf(gh.rx.data) = gh.tm.id
        /\ gh.pre.SessionState = SESSION_OPENED /\ ~TimeoutDue(gh.pre))
         => H[last.n].TimeOutRemote = TIMEOUT_RESET

C17_SecondPingAnswered ==
    /\ TickHeard(PING_REPLY_COMMAND) /\ FromPeer(gh.pre, gh.rx)
    /\ PingIdOf(gh.rx.data) = gh.tm.id /\ gh.tm.id = U32(2) /\ gh.tm.prev = U32(1)
    /\ gh.tm.run >= 2 * PingWindow /\ gh.tm.age1 = 1 /\ gh.tm.age2 = PingWindow + 1
    /\ gh.pre.TimeOutRemote < TIMEOUT_RESET - PingWindow
    /\ H[last.n].TimeOutRemote = TIMEOUT_RESET

\* C19: RestartSessionInitiator on an initiator sets the sequence counter to 0, the
\* state to Invite, the timer to 1000 ms and TimeOutRemote to 30000 and keeps the
\* peer; the next INVITATION is sent on the 1000th tick after the restart, to the
\* peer the endpoint had when it restarted; on a listener the call changes nothing.
C19_Restart ==
    /\ last.op = "RestartSessionInitiator" =>
         IF gh.pre.IsInitiatorNode
         THEN H[last.n] = [gh.pre EXCEPT !.UMPSequenceCounter = 0,
                                         !.SessionState = SESSION_INVITE,
                                         !.TimerRunning = TRUE, !.TimerEvent = FALSE,
                                         !.EventTime = InviteRetryTime,
                                         !.TimeOutRemote = TIMEOUT_RESET]
         ELSE H[last.n] = gh.pre
    /\ (gh.tm.since >= 0 /\ ~gh.tm.hit) => gh.tm.since < InviteRetryTime
    /\ gh.tm.hit =>
         /\ gh.tm.since = InviteRetryTime
         /\ SentTo(last.out, gh.tm.ip, gh.tm.port, InvitationPacket(INVITATION_COMMAND)) # {}

C19_ReinvitedAfterTimeout ==
    /\ gh.tm.hit /\ gh.tm.since = InviteRetryTime
    /\ gh.tm.prev = U32(1) /\ gh.tm.id = U32(2)
    /\ last.out[1].ip = AddrB.ip /\ last.out[1].port = AddrB.port
    /\ H["A"].SessionState = SESSION_INVITE /\ H["A"].ConnectionLost

\* C27: an initiator that stays in Invite sends an INVITATION in the first tick after
\* InitiateSession and from then on one INVITATION on every 1000th tick, each to
\* its peer and each adding one to InviteCount; the ticks between send none and leave
\* InviteCount alone.
C27_InviteRetry ==
    /\ gh.tm.gap >= 0 => gh.tm.gap = (IF gh.tm.wasFirst THEN 1 ELSE InviteRetryTime)
    /\ gh.tm.inv > 0 => (~gh.tm.first /\ gh.tm.inv < InviteRetryTime)
    /\ (/\ last.op = "RunSession" /\ gh.pre.SessionState = SESSION_INVITE
        /\ H[last.n].SessionState = SESSION_INVITE /\ last.path = <<>>) =>
         LET invs == Commands(last.out, INVITATION_COMMAND)
             n == H[last.n].InviteCount - gh.pre.InviteCount
         IN /\ Cardinality(invs) = n /\ n \in {0, 1}
            /\ invs = SentTo(last.out, gh.pre.SessionPartnerIP, gh.pre.SessionPartnerPort,
                             InvitationPacket(INVITATION_COMMAND))

C27_ThirdInvitation ==
    /\ last.op = "RunSession" /\ gh.tm.gap = InviteRetryTime /\ ~gh.tm.wasFirst
    /\ gh.pre.InviteCount = 2 /\ H[last.n].InviteCount = 3
    /\ gh.rx = NoRx /\ Len(last.out) = 1 /\ gh.now[last.n] = TimerMargin

\* C28: a tick of an Opened endpoint that sends UMP data leaves PINGDelayCounter at
\* 0, and a PING is sent only after more than 10000 ticks in a row without
\* outbound UMP data.
C28_DataPostponesPing ==
    /\ (/\ last.op = "RunSession" /\ gh.pre.SessionState = SESSION_OPENED
        /\ H[last.n].SessionState = SESSION_OPENED /\ DataOut(last.out) # <<>>) =>
         H[last.n].PINGDelayCounter = 0
    /\ (last.op = "RunSession" /\ Commands(last.out, PING_COMMAND) # {}) =>
         gh.tm.run > PingDelayLimit

(* ------- two endpoints, their timers and a network that delivers ------- *)

LinkMargin == 3
MaxLinkTicks == 8

\* the tick of endpoint n of the pair s: it reads the datagram at the head of its
\* socket queue
LinkCtx(s, n) ==
    RunSession(s.H[n], IF s.sk[n] # <<>> THEN Head(s.sk[n]) ELSE NoRx,
               [junk |-> 0, ovf |-> "intact"])

\* the pair after that tick: what n sent is queued at the socket of its destination
LinkAfter(s, n, c) ==
    LET Hn == [s.H EXCEPT ![n] = c.h]
    IN [H |-> Hn,
        sk |-> DeliverAll([s.sk EXCEPT ![n] = IF @ # <<>> THEN Tail(@) ELSE @], Hn, n, c.out)]

RECURSIVE LinkRun(_, _, _)
\* k ticks, of A and of B in turn, after the first i of them
\* (the first half's result is evaluated before the second half is entered)
LinkRun(s, i, k) ==
    IF k = 0 THEN s
    ELSE IF k = 1
         THEN LET n == IF i % 2 = 0 THEN "A" ELSE "B"
              IN LinkAfter(s, n, LinkCtx(s, n))
    ELSE LET s1 == LinkRun(s, i, k \div 2)
         IN IF s1.H = s1.H /\ s1.sk = s1.sk
            THEN LinkRun(s1, i + (k \div 2), k - (k \div 2)) ELSE s1

\* both endpoints Opened with each other, nothing in flight
LinkOpened ==
    [H |-> [n \in Nodes |-> IF n = "A" THEN OpenedInitiator ELSE OpenedListener],
     sk |-> [n \in Nodes |-> <<>>]]

\* the Opened pair; the pair whose initiator was restarted by its application with
\* RestartSessionInitiator; the pair whose initiator was started anew
LinkBase(kind) ==
    IF kind = "opened" THEN LinkOpened
    ELSE [LinkOpened EXCEPT !.H["A"] =
             IF kind = "restarted" THEN RestartSessionInitiator(@)
             ELSE Start("A", CNetUMPHandler, TRUE).h]

\* the Opened pair at its start, shortly before its first PINGs and shortly before
\* the remote timeout would expire; the half-open pairs at their start, and the
\* restarted one shortly before the next INVITATION, before the listener's first
\* PING, and one remote timeout and one invitation period later
\* (k: the ticks each endpoint has made, half: the ticks of the initiator since the
\* pair became half-open, -1 if it never was)
LinkStarts ==
    {[kind |-> "opened", k |-> k, half |-> -1] :
        k \in {0, PingWindow - LinkMargin, TIMEOUT_RESET - LinkMargin}}
    \cup {[kind |-> "restarted", k |-> k, half |-> k] :
             k \in {0, InviteRetryTime - LinkMargin, PingWindow - LinkMargin,
                    TIMEOUT_RESET + InviteRetryTime - LinkMargin}}
    \cup {[kind |-> "started", k |-> 0, half |-> 0]}

InitLink ==
    /\ \E t \in LinkStarts :
         \E s \in {LinkRun(LinkBase(t.kind), 0, 2 * t.k)} :
            /\ H = s.H
            /\ sock = s.sk
            /\ gh = [Gh0 EXCEPT !.half = t.half]
    /\ net = {}
    /\ last = NoLast
    /\ th = Th0

\* the 1 kHz clock of n: the two clocks are at most MaxSkew ticks apart
LinkTick(n) ==
    /\ gh.now[n] < MaxLinkTicks
    /\ gh.now[n] < gh.now[Other(n)] + MaxSkew
    /\ \E c \in {LinkCtx([H |-> H, sk |-> sock], n)} :
         \E s \in {LinkAfter([H |-> H, sk |-> sock], n, c)} :
          /\ H' = s.H
          /\ sock' = s.sk
          /\ last' = Last(n, "RunSession", c, 0)
          /\ gh' = [gh EXCEPT !.now[n] = @ + 1, !.pre = H[n],
                              !.delivered[n] = @ \o c.cb,
                              !.half = IF n = "A" /\ @ >= 0 THEN @ + 1 ELSE @]
    /\ UNCHANGED <<net, th>>

\* the application of the initiator restarts the session
LinkRestart(n) ==
    /\ n = "A"
    /\ gh.half = -1
    /\ H[n].SessionState = SESSION_OPENED
    /\ LET h == RestartSessionInitiator(H[n])
       IN /\ H' = [H EXCEPT ![n] = h]
          /\ last' = Last(n, "RestartSessionInitiator", Ctx(h), 0)
          /\ gh' = [gh EXCEPT !.pre = H[n], !.half = 0]
    /\ UNCHANGED <<sock, net, th>>

NextLink == \E n \in Nodes : LinkTick(n) \/ LinkRestart(n)

SpecLink == InitLink /\ [][NextLink]_vars

\* the two endpoints are Opened with each other
BothOpened ==
    /\ \A n \in Nodes : H[n].SessionState = SESSION_OPENED
    /\ H["A"].SessionPartnerIP = AddrB.ip /\ H["A"].SessionPartnerPort = AddrB.port
    /\ H["B"].SessionPartnerIP = AddrA.ip /\ H["B"].SessionPartnerPort = AddrA.port

\* C36: a pair that is half-open (the initiator in Invite, the listener Opened
\* towards it) is Opened on both sides again one remote timeout and one invitation
\* period later at the latest, the network delivering every datagram.
C36_HalfOpenHeals ==
    gh.half >= TIMEOUT_RESET + InviteRetryTime => BothOpened

\* C37: two endpoints Opened with each other that send no UMP data, over a network
\* that delivers every datagram, stay Opened with TimeOutRemote above 0: the
\* PING_REPLY to each PING arrives before TimeOutRemote has run down by more than a
\* PING period and the delay of the exchange.
C37_NoTimeout ==
    gh.half = -1 =>
        /\ BothOpened
        /\ \A n \in Nodes :
               /\ H[n].TimeOutRemote > 0
               /\ H[n].TimeOutRemote >= TIMEOUT_RESET - PingWindow - 2 * MaxSkew - LinkMargin
               /\ ~H[n].ConnectionLost

\* both endpoints have sent their third PING and had it answered
C37_ThirdPingAnswered ==
    /\ gh.half = -1 /\ last.op = "RunSession"
    /\ \A n \in Nodes : H[n].PINGIdCounter = 3 /\ H[n].TimeOutRemote > TIMEOUT_RESET - MaxLinkTicks

(* --------- SetCallback on one thread, the ticks on another ------------- *)

MaxCallTicks == 3
MaxCallSets == 2

\* the (callback, user data) pairs the application registers: 1 at construction
CallPairs == {1, 2}

\* the listener is Opened, or constructed and not started
InitCall ==
    /\ \E h \in {OpenedListener, CNetUMPHandler} :
         H = [n \in Nodes |-> IF n = "B" THEN h ELSE CNetUMPHandler]
    /\ sock = [n \in Nodes |-> <<>>]
    /\ net = {}
    /\ last = NoLast
    /\ gh = Gh0
    /\ th = Th0

\* SetCallback is entered: SocketState = SocketLocked; SocketLocked = false
CallEnter(n) ==
    /\ n = "B" /\ th.pc = "idle"
    /\ gh.calls < MaxCallSets
    /\ \E p \in CallPairs \ {H[n].UMPCallback} :
         th' = [th EXCEPT !.pc = "instance", !.CallbackFunc = p, !.UserInstance = p,
                          !.SocketState = H[n].SocketLocked]
    /\ H' = [H EXCEPT ![n].SocketLocked = FALSE]
    /\ gh' = [gh EXCEPT !.calls = @ + 1]
    /\ UNCHANGED <<sock, net, last>>

\* ClientInstance = UserInstance
CallInstance(n) ==
    /\ n = "B" /\ th.pc = "instance"
    /\ H' = [H EXCEPT ![n].ClientInstance = th.UserInstance]
    /\ th' = [th EXCEPT !.pc = "callback"]
    /\ UNCHANGED <<sock, net, last, gh>>

\* UMPCallback = CallbackFunc
CallCallback(n) ==
    /\ n = "B" /\ th.pc = "callback"
    /\ H' = [H EXCEPT ![n].UMPCallback = th.CallbackFunc]
    /\ th' = [th EXCEPT !.pc = "restore"]
    /\ UNCHANGED <<sock, net, last, gh>>

\* SocketLocked = SocketState; return
CallRestore(n) ==
    /\ n = "B" /\ th.pc = "restore"
    /\ H' = [H EXCEPT ![n].SocketLocked = th.SocketState]
    /\ th' = [th EXCEPT !.pc = "idle"]
    /\ UNCHANGED <<sock, net, last, gh>>

\* one tick on the tick thread; the peer may have sent a message; gh.cbk is the
\* callback the tick found and where SetCallback stood then
CallTick(n) ==
    /\ n = "B"
    /\ gh.now[n] < MaxCallTicks
    /\ \E rx \in {NoRx, Rx(AddrA.ip, AddrA.port, Datagram(DataPacket(gh.now[n], Msg1(0))))},
          env \in Envs(H[n]) :
         LET c == RunSession(H[n], rx, env)
         IN /\ H' = [H EXCEPT ![n] = c.h]
            /\ last' = Last(n, "RunSession", c, 0)
            /\ gh' = [gh EXCEPT !.now[n] = @ + 1, !.pre = H[n], !.rx = rx,
                                !.cbk = [UMPCallback |-> H[n].UMPCallback,
                                         ClientInstance |-> H[n].ClientInstance,
                                         pc |-> th.pc]]
    /\ UNCHANGED <<sock, net, th>>

NextCall ==
    \E n \in Nodes : \/ CallEnter(n) \/ CallInstance(n) \/ CallCallback(n)
                     \/ CallRestore(n) \/ CallTick(n)

SpecCall == InitCall /\ [][NextCall]_vars

\* C24: while SetCallback is running a tick returns at once: it hands nothing to the
\* callback and changes nothing; and a tick never calls a callback with the user
\* data of another registration.
C24_CallbackSwap ==
    /\ (last.op = "RunSession" /\ gh.cbk.pc # "idle") =>
         (last.cb = <<>> /\ H[last.n] = gh.pre)
    /\ (last.op = "RunSession" /\ last.cb # <<>>) =>
         gh.cbk.UMPCallback = gh.cbk.ClientInstance

(* ------------- the SYSEX transcoder of UMP_Transcoder.c ---------------- *)

MAX_SYSEX_SIZE == 256

MaxEncodeCalls == 5
MaxDecodeCalls == 4
SysexMargin == 2

SysexStart == 806748160
SysexContinue == 807796736
SysexEnd == 808452096

\* the status nibble and the size nibble of the first word of a SYSEX7 packet
SysexStatus(w) == (w \div 1048576) % 16

SysexSizeOf(w) == (w \div 65536) % 16

\* byte i of the MIDI 1.0 message (MIDIBytes[i])
ByteAt(MIDIBytes, i) == MIDIBytes[i + 1]

\* one call of TranscodeSYSEX_UMP: what it returns, *PtrSYSEX and UMPMessage after it
TranscodeSYSEX_UMP(MIDIBytes, MIDI1Length, PtrSYSEX, UMPMessage) ==
    LET Length == MIDI1Length - 2
        b(i) == ByteAt(MIDIBytes, i)
        RemainingBytes == Length - PtrSYSEX + 1
        w(k, sh) == IF RemainingBytes >= k THEN b(PtrSYSEX + k - 1) * sh ELSE 0
    IN IF b(0) # 240 \/ Length <= 6
       THEN [ret |-> 0, PtrSYSEX |-> PtrSYSEX, UMPMessage |-> UMPMessage]
       ELSE IF PtrSYSEX = 0
       THEN [ret |-> 1, PtrSYSEX |-> 7,
             UMPMessage |-> <<SysexStart + b(1) * 256 + b(2),
                              b(3) * 16777216 + b(4) * 65536 + b(5) * 256 + b(6)>>]
       ELSE IF RemainingBytes > 6
       THEN [ret |-> 1, PtrSYSEX |-> PtrSYSEX + 6,
             UMPMessage |-> <<SysexContinue + b(PtrSYSEX) * 256 + b(PtrSYSEX + 1),
                              b(PtrSYSEX + 2) * 16777216 + b(PtrSYSEX + 3) * 65536
                                + b(PtrSYSEX + 4) * 256 + b(PtrSYSEX + 5)>>]
       ELSE [ret |-> 1, PtrSYSEX |-> PtrSYSEX,
             UMPMessage |-> <<SysexEnd + RemainingBytes * 65536 + b(PtrSYSEX) * 256 + w(2, 1),
                              w(3, 16777216) + w(4, 65536) + w(5, 256)
                                + (IF RemainingBytes = 6 THEN b(PtrSYSEX + 5) ELSE 0)>>]

\* the six data bytes of a SYSEX7 packet, in the order the decoder stores them
SysexBytes(SourceUMP) ==
    <<(SourceUMP[1] \div 256) % 128, SourceUMP[1] % 128,
      (SourceUMP[2] \div 16777216) % 128, (SourceUMP[2] \div 65536) % 128,
      (SourceUMP[2] \div 256) % 128, SourceUMP[2] % 128>>

\* SYSEXBuffer after the stores of vals at base, base + 1, ...; a store at an index
\* that the array does not have leaves the array as it is
SysexStore(buf, base, vals) ==
    [i \in 1 .. MAX_SYSEX_SIZE |->
        IF i - 1 >= base /\ i - 1 < base + Len(vals) THEN vals[i - base] ELSE buf[i]]

\* the decoder before its first packet (the caller zeroes it)
Decoder0 ==
    [UMPStarted |-> 0, SYSEXSize |-> 0, SYSEXBuffer |-> [i \in 1 .. MAX_SYSEX_SIZE |-> 0]]

\* one call of RebuildSYSEXFromUMP: what it returns, the decoder after it, and top,
\* the highest index of SYSEXBuffer the call stored to (-1: none)
RebuildSYSEXFromUMP(SourceUMP, Decoder) ==
    LET Size == SysexSizeOf(SourceUMP[1])
        bytes == SysexBytes(SourceUMP)
        at == Decoder.SYSEXSize
    IN IF SourceUMP[1] \div 268435456 # 3 THEN [ret |-> 0, Decoder |-> Decoder, top |-> -1]
       ELSE IF SysexStatus(SourceUMP[1]) = 1
       THEN [ret |-> 0, top |-> 6,
             Decoder |-> [UMPStarted |-> 1, SYSEXSize |-> Size + 1,
                          SYSEXBuffer |-> SysexStore(Decoder.SYSEXBuffer, 0, <<240>> \o bytes)]]
       ELSE IF SysexStatus(SourceUMP[1]) = 2
       THEN IF Decoder.UMPStarted = 0 THEN [ret |-> 0, Decoder |-> Decoder, top |-> -1]
            ELSE IF at >= MAX_SYSEX_SIZE - 6
                 THEN [ret |-> 0, Decoder |-> [Decoder EXCEPT !.UMPStarted = 0], top |-> -1]
            ELSE [ret |-> 0, top |-> at + 5,
                  Decoder |-> [Decoder EXCEPT !.SYSEXSize = at + Size,
                                              !.SYSEXBuffer = SysexStore(@, at, bytes)]]
       ELSE IF SysexStatus(SourceUMP[1]) = 3
       THEN IF Decoder.UMPStarted = 0 THEN [ret |-> 0, Decoder |-> Decoder, top |-> -1]
            ELSE [ret |-> at + Size + 1, top |-> at + Size,
                  Decoder |-> [UMPStarted |-> 0, SYSEXSize |-> at + Size,
                               SYSEXBuffer |->
                                   SysexStore(SysexStore(Decoder.SYSEXBuffer, at,
                                                         SubSeq(bytes, 1, IF Size <= 6 THEN Size ELSE 5)),
                                              at + Size, <<247>>)]]
       ELSE [ret |-> 0, Decoder |-> Decoder, top |-> -1]

\* a MIDI 1.0 SYSEX with n data bytes 1, 2, ..., n between F0 and F7
SysexMessage(n) == <<240>> \o [i \in 1 .. n |-> i] \o <<247>>

\* the numbers of data bytes of the SYSEX messages handed to the encoder
SysexLengths == {6, 7, 12, 13, 19}

\* a SYSEX7 packet with this first word and the data bytes 1 .. 6
SysexPacket(first, size) == <<first - (first % 1048576) + size * 65536 + 258, 50595078>>

\* the packets handed to the decoder: Start, Continue and End with the sizes the
\* encoder gives them, an End of one byte, and a packet that is not SYSEX7
SysexPackets ==
    {SysexPacket(SysexStart, 6), SysexPacket(SysexContinue, 6),
     SysexPacket(SysexEnd, 6), SysexPacket(SysexEnd, 1), <<546324480, 0>>}

\* the caller of the transcoder: the SYSEX it converts, its cursor, the packet and
\* the value the last call returned, the packets got so far (their status nibbles),
\* its decoder and the packet it handed to the decoder last
Tc0 ==
    [pc |-> "encode", MIDIBytes |-> <<>>, MIDI1Length |-> 0, PtrSYSEX |-> 0,
     UMPMessage |-> <<0, 0>>, ret |-> 1, got |-> <<>>, calls |-> 0,
     Decoder |-> Decoder0, SourceUMP |-> <<0, 0>>, top |-> -1, was |-> Decoder0]

\* how many Continue packets of six bytes the decoder takes after a Start of six
SysexContinues == (MAX_SYSEX_SIZE - 6 - 7) \div 6 + 1

RECURSIVE Continued(_, _)
\* the decoder after k more Continue packets of six bytes
\* (each call's result is evaluated before the next call is entered)
Continued(Decoder, k) ==
    IF k = 0 THEN Decoder
    ELSE LET d == RebuildSYSEXFromUMP(SysexPacket(SysexContinue, 6), Decoder).Decoder
         IN IF d.SYSEXBuffer = d.SYSEXBuffer THEN Continued(d, k - 1) ELSE d

\* the decoder in the middle of a long SYSEX, shortly before its buffer is full
DecoderNearEnd ==
    Continued(RebuildSYSEXFromUMP(SysexPacket(SysexStart, 6), Decoder0).Decoder,
              SysexContinues - SysexMargin)

\* a caller about to convert a SYSEX (PtrSYSEX zeroed), or about to decode packets
InitSysex ==
    /\ H = [n \in Nodes |-> CNetUMPHandler]
    /\ sock = [n \in Nodes |-> <<>>]
    /\ net = {}
    /\ last = NoLast
    /\ gh = Gh0
    /\ \/ \E n \in SysexLengths :
            th = [Tc0 EXCEPT !.MIDIBytes = SysexMessage(n), !.MIDI1Length = n + 2]
       \/ \E d \in {Decoder0, DecoderNearEnd} :
            th = [Tc0 EXCEPT !.pc = "decode", !.Decoder = d, !.was = d]

\* the caller calls TranscodeSYSEX_UMP again, as the last call returned true
SysexEncode ==
    /\ th.pc = "encode" /\ th.ret # 0
    /\ th.calls < MaxEncodeCalls
    /\ LET r == TranscodeSYSEX_UMP(th.MIDIBytes, th.MIDI1Length, th.PtrSYSEX, th.UMPMessage)
       IN /\ th' = [th EXCEPT !.PtrSYSEX = r.PtrSYSEX, !.UMPMessage = r.UMPMessage,
                              !.ret = r.ret, !.calls = @ + 1,
                              !.got = IF r.ret # 0
                                      THEN Append(@, SysexStatus(r.UMPMessage[1])) ELSE @]
          /\ last' = Last("A", "TranscodeSYSEX_UMP", Ctx(CNetUMPHandler), r.ret)
    /\ UNCHANGED <<H, sock, net, gh>>

\* the caller hands a packet to RebuildSYSEXFromUMP
SysexDecode ==
    /\ th.pc = "decode"
    /\ th.calls < MaxDecodeCalls
    /\ \E SourceUMP \in SysexPackets :
         LET r == RebuildSYSEXFromUMP(SourceUMP, th.Decoder)
         IN /\ th' = [th EXCEPT !.Decoder = r.Decoder, !.ret = r.ret, !.top = r.top,
                                !.SourceUMP = SourceUMP, !.was = th.Decoder,
                                !.calls = @ + 1]
            /\ last' = Last("A", "RebuildSYSEXFromUMP", Ctx(CNetUMPHandler), r.ret)
    /\ UNCHANGED <<H, sock, net, gh>>

NextSysex == SysexEncode \/ SysexDecode

SpecSysex == InitSysex /\ [][NextSysex]_vars

\* C25: called again and again on a SYSEX of more than 6 data bytes, from PtrSYSEX 0,
\* TranscodeSYSEX_UMP gives one Start, then Continue packets, then one End, and the
\* call after the End returns 0.
C25_EncoderTerminates ==
    (th.pc = "encode" /\ th.MIDI1Length - 2 > 6) =>
        /\ \A i \in 1 .. Len(th.got) :
              th.got[i] = (IF i = 1 THEN 1 ELSE IF i = Len(th.got) /\ th.ret = 0 THEN 3
                           ELSE IF i < Len(th.got) THEN 2 ELSE th.got[i])
        /\ (Len(th.got) >= 2 /\ th.got[Len(th.got) - 1] = 3) => th.ret = 0

\* C26: RebuildSYSEXFromUMP returns 0 and leaves the decoder alone for a Continue or
\* End that no Start precedes, and never stores at an index of SYSEXBuffer that is
\* MAX_SYSEX_SIZE or more.
C26_DecoderBounded ==
    last.op = "RebuildSYSEXFromUMP" =>
        /\ (SysexStatus(th.SourceUMP[1]) \in {2, 3} /\ th.was.UMPStarted = 0) =>
              (th.ret = 0 /\ th.Decoder = th.was)
        /\ th.top < MAX_SYSEX_SIZE
====
